---- MODULE Spec2Model ----
(***************************************************************************)
(* TaxHawk client-side tax engine (src/client/src/engine).                 *)
(*                                                                         *)
(* Money.  Rupee amounts that the code keeps as integers are integers      *)
(* here.  Slab tax is a sum of (integer rupees) x (rate that is a multiple *)
(* of 5%), so it is carried exactly in units of 1/20 rupee ("T20").        *)
(* Surcharge arithmetic multiplies that by a whole percentage, so it is    *)
(* carried exactly as a pair [w, n] = w + n/2000 rupees with 0 <= n < 2000.*)
(* Math.round(x) is floor(x + 1/2).                                        *)
(***************************************************************************)
EXTENDS Integers, Sequences, FiniteSets, TLC

VARIABLES pc, salary, holdings, opts, today, result, taxIn, taxOut, redIn, redOut,
          dateIn, dateOut, wizard, app

vars ==
  <<pc, salary, holdings, opts, today, result, taxIn, taxOut, redIn, redOut,
    dateIn, dateOut, wizard, app>>

\* Value of a variable that the running specification does not use.
Idle == [idle |-> TRUE]

\* ------------------------------------------------------------------------
\* Arithmetic helpers
\* ------------------------------------------------------------------------

Min(a, b) == IF a <= b THEN a ELSE b

Max(a, b) == IF a >= b THEN a ELSE b

\* const x = e; body(x): the value e is computed once and then named.
With(e, body(_)) == CHOOSE r \in {body(x) : x \in {e}} : TRUE

\* Math.round(n / d) for d > 0: floor(n/d + 1/2).
RoundDiv(n, d) == (2 * n + d) \div (2 * d)

\* Exact amount w + n/2000 rupees, normalised to 0 <= n < 2000.
Mk(w, n) == [w |-> w + (n \div 2000), n |-> n % 2000]

\* An amount given in 1/20 rupee, as an exact amount.
FromT20(k) == Mk(k \div 20, (k % 20) * 100)

MAdd(a, b) == Mk(a.w + b.w, a.n + b.n)

MSub(a, b) == Mk(a.w - b.w, a.n - b.n)

MGt(a, b) == a.w > b.w \/ (a.w = b.w /\ a.n > b.n)

MMax0(a) == IF a.w < 0 THEN Mk(0, 0) ELSE a

\* Math.round of an exact amount.
MRound(a) == IF a.n >= 1000 THEN a.w + 1 ELSE a.w

\* (k/20 rupees) x (pct/100), exactly.
MulPct20(k, pct) ==
  LET w == k \div 20
      f == k % 20
      prod == w * pct
  IN  Mk(prod \div 100, (prod % 100) * 20 + f * pct)

\* ------------------------------------------------------------------------
\* Statutory constants (taxUtils.js).  Slab = <<upper_limit, rate in %>>.
\* ------------------------------------------------------------------------

Infinity == 2147483647

NEW_REGIME_SLABS_FY2024_25 ==
  << <<300000, 0>>, <<700000, 5>>, <<1000000, 10>>, <<1200000, 15>>,
     <<1500000, 20>>, <<Infinity, 30>> >>

NEW_REGIME_SLABS_FY2025_26 ==
  << <<400000, 0>>, <<800000, 5>>, <<1200000, 10>>, <<1600000, 15>>,
     <<2000000, 20>>, <<2400000, 25>>, <<Infinity, 30>> >>

OLD_REGIME_SLABS_BELOW_60 ==
  << <<250000, 0>>, <<500000, 5>>, <<1000000, 20>>, <<Infinity, 30>> >>

OLD_REGIME_SLABS_SENIOR ==
  << <<300000, 0>>, <<500000, 5>>, <<1000000, 20>>, <<Infinity, 30>> >>

OLD_REGIME_SLABS_SUPER_SENIOR ==
  << <<500000, 0>>, <<1000000, 20>>, <<Infinity, 30>> >>

\* CESS_RATE = 0.04, in percent.
CESS_RATE == 4

\* STANDARD_DEDUCTION[fy]; a year without an entry has none.
STANDARD_DEDUCTION ==
  [fy \in {"2024-25", "2025-26"} |->
     IF fy = "2024-25" THEN [old |-> 50000, new |-> 75000]
                       ELSE [old |-> 75000, new |-> 75000]]

\* REBATE_87A[fy][regime].
REBATE_87A ==
  [fy \in {"2024-25", "2025-26"} |->
     IF fy = "2024-25"
       THEN [old |-> [income_limit |-> 500000, max_rebate |-> 12500],
             new |-> [income_limit |-> 700000, max_rebate |-> 25000]]
       ELSE [old |-> [income_limit |-> 500000, max_rebate |-> 12500],
             new |-> [income_limit |-> 1200000, max_rebate |-> 60000]]]

SURCHARGE_SLABS_OLD ==
  << <<5000000, 0>>, <<10000000, 10>>, <<20000000, 15>>, <<50000000, 25>>,
     <<Infinity, 37>> >>

\* A new-regime table that carries the old regime's 37% slab.
SURCHARGE_SLABS_NEW_With37 ==
  << <<5000000, 0>>, <<10000000, 10>>, <<20000000, 15>>, <<50000000, 25>>,
     <<Infinity, 37>> >>

SURCHARGE_SLABS_NEW ==
  << <<5000000, 0>>, <<10000000, 10>>, <<20000000, 15>>, <<50000000, 25>>,
     <<Infinity, 25>> >>

LIMIT_80C == 150000

LIMIT_80CCD_1B == 50000

LIMIT_80D_SELF_BELOW_60 == 25000

LIMIT_80D_SELF_SENIOR == 50000

LIMIT_80D_PARENTS_BELOW_60 == 25000

LIMIT_80D_PARENTS_SENIOR == 50000

LIMIT_24B_SELF_OCCUPIED == 200000

\* HRA percentages of basic, in percent.
HRA_METRO_PERCENT == 50

HRA_NON_METRO_PERCENT == 40

HRA_RENT_MINUS_BASIC_PERCENT == 10

LTCG_EXEMPTION == 125000

\* LTCG_RATE = 0.125 and STCG_RATE = 0.20, in tenths of a percent.
LTCG_RATE == 125

STCG_RATE == 200

\* ------------------------------------------------------------------------
\* Core tax functions (taxUtils.js)
\* ------------------------------------------------------------------------

\* computeTaxOnSlabs: base tax in 1/20 rupee.  The loop breaks at the first
\* slab whose lower edge the income does not exceed.
RECURSIVE SlabLoop(_, _, _, _)
SlabLoop(taxableIncome, slabs, i, prevLimit) ==
  IF i > Len(slabs) \/ taxableIncome <= prevLimit THEN 0
  ELSE LET upperLimit == slabs[i][1]
           rate == slabs[i][2]
           taxableInSlab == Min(taxableIncome, upperLimit) - prevLimit
       IN  taxableInSlab * (rate \div 5)
             + SlabLoop(taxableIncome, slabs, i + 1, upperLimit)

computeTaxOnSlabs(taxableIncome, slabs) == SlabLoop(taxableIncome, slabs, 1, 0)

\* applyCess on an amount given in 1/20 rupee: Math.round(tax * 0.04).
applyCess(tax20) == RoundDiv(tax20, 2000 \div CESS_RATE)

\* A rebate that tapers: above the ceiling the tax is limited to the income
\* in excess of the ceiling.
apply87aRebate_Tapered(tax20, taxableIncome, regime, fy) ==
  IF fy \notin DOMAIN REBATE_87A THEN tax20
  ELSE IF taxableIncome <= REBATE_87A[fy][regime].income_limit
    THEN LET rebate20 == Min(tax20, 20 * REBATE_87A[fy][regime].max_rebate)
         IN  20 * RoundDiv(tax20 - rebate20, 20)
    ELSE Min(tax20, 20 * (taxableIncome - REBATE_87A[fy][regime].income_limit))

\* A rebate given above the income limit instead of up to it.
apply87aRebate_AboveLimit(tax20, taxableIncome, regime, fy) ==
  IF fy \in DOMAIN REBATE_87A
       /\ taxableIncome > REBATE_87A[fy][regime].income_limit
    THEN LET rebate20 == Min(tax20, 20 * REBATE_87A[fy][regime].max_rebate)
         IN  20 * RoundDiv(tax20 - rebate20, 20)
    ELSE tax20

\* apply87aRebate: tax after rebate, in 1/20 rupee.  REBATE_87A[fy]?.[regime]
\* is undefined for a year that has no entry, and then the tax is unchanged.
apply87aRebate(tax20, taxableIncome, regime, fy) ==
  IF fy \in DOMAIN REBATE_87A
       /\ taxableIncome <= REBATE_87A[fy][regime].income_limit
    THEN LET rebate20 == Min(tax20, 20 * REBATE_87A[fy][regime].max_rebate)
         IN  20 * RoundDiv(tax20 - rebate20, 20)
    ELSE tax20

\* Index of the first surcharge slab with taxableIncome <= upper_limit.
RECURSIVE SurchargeSlabIndex(_, _, _)
SurchargeSlabIndex(taxableIncome, surchargeSlabs, i) ==
  IF i > Len(surchargeSlabs) THEN 0
  ELSE IF taxableIncome <= surchargeSlabs[i][1] THEN i
  ELSE SurchargeSlabIndex(taxableIncome, surchargeSlabs, i + 1)

\* getSurcharge: surcharge with marginal relief, in whole rupees.
getSurcharge(taxableIncome, baseTax20, surchargeSlabs, taxSlabs) ==
  LET i == SurchargeSlabIndex(taxableIncome, surchargeSlabs, 1)
      rate == IF i = 0 THEN 0 ELSE surchargeSlabs[i][2]
      last == IF i = 0 THEN Len(surchargeSlabs) ELSE i - 1
      prevThreshold == IF last = 0 THEN 0 ELSE surchargeSlabs[last][1]
      prevRate == IF last = 0 THEN 0 ELSE surchargeSlabs[last][2]
      rawSurcharge == MulPct20(baseTax20, rate)
      taxAtThreshold == computeTaxOnSlabs(prevThreshold, taxSlabs)
      surchargeAtThreshold == MulPct20(taxAtThreshold, prevRate)
      totalAtThreshold == MAdd(FromT20(taxAtThreshold), surchargeAtThreshold)
      excessIncome == taxableIncome - prevThreshold
      maxTotal == MAdd(totalAtThreshold, Mk(excessIncome, 0))
      rawTotal == MAdd(FromT20(baseTax20), rawSurcharge)
  IN  IF rate = 0 THEN 0
      ELSE IF MGt(rawTotal, maxTotal)
        THEN MRound(MMax0(MSub(maxTotal, FromT20(baseTax20))))
        ELSE MRound(rawSurcharge)

OldSlabs(ageCategory) ==
  IF ageCategory = "super_senior" THEN OLD_REGIME_SLABS_SUPER_SENIOR
  ELSE IF ageCategory = "senior" THEN OLD_REGIME_SLABS_SENIOR
  ELSE OLD_REGIME_SLABS_BELOW_60

NewSlabs(fy) ==
  IF fy = "2025-26" THEN NEW_REGIME_SLABS_FY2025_26 ELSE NEW_REGIME_SLABS_FY2024_25

\* getMarginalRate, in percent.
RECURSIVE MarginalLoop(_, _, _)
MarginalLoop(taxableIncome, slabs, i) ==
  IF taxableIncome <= slabs[i][1] \/ i = Len(slabs) THEN slabs[i][2]
  ELSE MarginalLoop(taxableIncome, slabs, i + 1)

getMarginalRate(taxableIncome, regime, fy, ageCategory) ==
  MarginalLoop(taxableIncome,
               IF regime = "new" THEN NewSlabs(fy) ELSE OldSlabs(ageCategory), 1)

\* The breakdown both regime calculators return.  tax_after_rebate is kept
\* in 1/20 rupee (the code returns it unrounded when no rebate applies).
TaxBreakdown(taxableIncome, slabs, surchargeSlabs, regime, fy) ==
  LET baseTax == computeTaxOnSlabs(taxableIncome, slabs)
      taxAfterRebate == apply87aRebate(baseTax, taxableIncome, regime, fy)
      surcharge == getSurcharge(taxableIncome, taxAfterRebate, surchargeSlabs, slabs)
      cess == applyCess(taxAfterRebate + 20 * surcharge)
      totalTax == RoundDiv(taxAfterRebate + 20 * surcharge + 20 * cess, 20)
  IN  [taxable_income |-> taxableIncome,
       base_tax |-> RoundDiv(baseTax, 20),
       rebate_87a |-> RoundDiv(baseTax - taxAfterRebate, 20),
       tax_after_rebate20 |-> taxAfterRebate,
       surcharge |-> surcharge,
       cess |-> cess,
       total_tax |-> totalTax]

calculateNewRegimeTax(taxableIncome, fy) ==
  TaxBreakdown(taxableIncome, NewSlabs(fy), SURCHARGE_SLABS_NEW, "new", fy)

calculateOldRegimeTax(taxableIncome, fy, ageCategory) ==
  TaxBreakdown(taxableIncome, OldSlabs(ageCategory), SURCHARGE_SLABS_OLD, "old", fy)

\* ------------------------------------------------------------------------
\* Data model (models.js)
\* ------------------------------------------------------------------------

METRO_CITIES == {"mumbai", "delhi", "kolkata", "chennai"}

\* String.prototype.toLowerCase on the city tokens that occur as inputs.
toLowerCase(city) ==
  CASE city = "Mumbai" -> "mumbai"
    [] city = "Pune" -> "pune"
    [] OTHER -> city

\* SalaryProfile.is_metro getter.
is_metro(profile) == toLowerCase(profile.city) \in METRO_CITIES

\* Holding getters.  Prices and quantities are whole numbers in this model,
\* so rounding to paise leaves the products unchanged.
total_cost(h) == h.purchase_price * h.quantity

current_value(h) == h.current_price * h.quantity

unrealized_gain(h) == current_value(h) - total_cost(h)

\* Dates are [y, m, d] with m = Date.getMonth() (0 = January).
NullDate == [null |-> TRUE]

holdingMonths(h, asOf) ==
  (asOf.y - h.purchase_date.y) * 12 + (asOf.m - h.purchase_date.m)

\* Long-term from the twelfth (debt: twenty-fourth) month on.
isLongTerm_FromTwelve(h, asOf) ==
  IF h.security_type \in {"equity_share", "equity_mf", "elss"}
    THEN holdingMonths(h, asOf) >= 12
    ELSE holdingMonths(h, asOf) >= 24

isLongTerm(h, asOf) ==
  IF h.security_type \in {"equity_share", "equity_mf", "elss"}
    THEN holdingMonths(h, asOf) > 12
    ELSE holdingMonths(h, asOf) > 24

\* Days of month m (0 = January) of year y.
DaysInMonth(y, m) ==
  IF m = 1 THEN (IF y % 4 = 0 /\ (y % 100 # 0 \/ y % 400 = 0) THEN 29 ELSE 28)
  ELSE IF m \in {3, 5, 8, 10} THEN 30 ELSE 31

PreviousDay(date) ==
  IF date.d > 1 THEN [date EXCEPT !.d = @ - 1]
  ELSE IF date.m > 0
    THEN [y |-> date.y, m |-> date.m - 1, d |-> DaysInMonth(date.y, date.m - 1)]
    ELSE [y |-> date.y - 1, m |-> 11, d |-> 31]

\* new Date("YYYY-MM-DD"): a date-only string is midnight UTC of that day.
\* The fields getFullYear(), getMonth() and getDate() are read in the
\* runtime's timezone, given as its offset from UTC in minutes: behind UTC
\* they are those of the day before.
ParseIsoDate(iso, tzOffset) == IF tzOffset < 0 THEN PreviousDay(iso) ELSE iso

\* A date given as a string is [iso |-> [y, m, d]]; a Date built with
\* new Date(y, m, d) is its fields [y, m, d].
IsString(date) == "iso" \in DOMAIN date

\* A Date argument of the engine, whichever way the caller built it.
DateValue(date, tzOffset) ==
  IF IsString(date) THEN ParseIsoDate(date.iso, tzOffset) ELSE date

\* createHolding: a purchase_date given as a string goes through new Date().
createHolding(data, tzOffset) ==
  [security_name |-> data.security_name,
   security_type |-> data.security_type,
   purchase_date |-> IF IsString(data.purchase_date)
                       THEN ParseIsoDate(data.purchase_date.iso, tzOffset)
                       ELSE data.purchase_date,
   purchase_price |-> data.purchase_price,
   quantity |-> data.quantity,
   current_price |-> data.current_price]

NullHoldings == [null |-> TRUE]

\* createHoldings({}).
EmptyHoldings ==
  [holdings |-> <<>>, realized_stcg_this_fy |-> 0, realized_ltcg_this_fy |-> 0]

\* createFinding keeps the fields it is given (texts are kept as a tag
\* followed by the amounts interpolated into them).
createFinding(check_id, status, finding, savings, deadline, details) ==
  [check_id |-> check_id, status |-> status, finding |-> finding,
   savings |-> savings, deadline |-> deadline, details |-> details]

\* ------------------------------------------------------------------------
\* Taxable income derivation and HRA (taxUtils.js)
\* ------------------------------------------------------------------------

computeNewRegimeTaxableIncome(profile) ==
  LET fy == profile.financial_year
      stdDed == IF fy \in DOMAIN STANDARD_DEDUCTION
                  THEN STANDARD_DEDUCTION[fy].new ELSE 75000
      taxable == profile.gross_salary - stdDed - profile.professional_tax
                   - profile.deduction_80ccd_2
  IN  Max(taxable, 0)

\* The object {}.
EmptyObject == [k \in {} |-> 0]

\* No overrides: every opts.* is undefined.
NoOverrides == EmptyObject

\* opts.k != null ? opts.k : dflt
Override(o, k, dflt) == IF k \in DOMAIN o THEN o[k] ELSE dflt

computeOldRegimeTaxableIncome(profile, o) ==
  LET fy == profile.financial_year
      stdDed == IF fy \in DOMAIN STANDARD_DEDUCTION
                  THEN STANDARD_DEDUCTION[fy].old ELSE 50000
      hraExempt == Override(o, "hraExemption", profile.hra_exemption)
      netSalary == profile.gross_salary - hraExempt - profile.lta_exemption
                     - profile.other_exemptions
      gti == netSalary - stdDed - profile.professional_tax
      ded80c == Override(o, "total80c",
                  Min(profile.deduction_80c + profile.deduction_80ccc
                        + profile.deduction_80ccd_1, LIMIT_80C))
      ded80d == Override(o, "total80d", profile.deduction_80d)
      ded80ccd1b == Override(o, "total80ccd1b", profile.deduction_80ccd_1b)
      ded80ccd2 == profile.deduction_80ccd_2
      ded24b == Min(Override(o, "total24b", profile.deduction_24b),
                    LIMIT_24B_SELF_OCCUPIED)
      dedOther == profile.deduction_80e + profile.deduction_80g
                    + profile.deduction_80tta + profile.other_deductions
      totalVia == ded80c + ded80ccd1b + ded80ccd2 + ded80d + ded24b + dedOther
  IN  [gross_salary |-> profile.gross_salary,
       hra_exemption |-> hraExempt,
       lta_exemption |-> profile.lta_exemption,
       other_exemptions |-> profile.other_exemptions,
       net_salary |-> netSalary,
       standard_deduction |-> stdDed,
       professional_tax |-> profile.professional_tax,
       gross_total_income |-> gti,
       deduction_80c |-> ded80c,
       deduction_80ccd_1b |-> ded80ccd1b,
       deduction_80ccd_2 |-> ded80ccd2,
       deduction_80d |-> ded80d,
       deduction_24b |-> ded24b,
       deduction_other |-> dedOther,
       total_vi_a |-> totalVia,
       taxable_income |-> Max(gti - totalVia, 0)]

\* The least of the three amounts, without the floor at zero.
calculateHraExemption_NoFloor(basicAnnual, hraReceivedAnnual, rentPaidAnnual, isMetro) ==
  LET optionA == hraReceivedAnnual
      optionB == rentPaidAnnual - (HRA_RENT_MINUS_BASIC_PERCENT * basicAnnual) \div 100
      optionC == ((IF isMetro THEN HRA_METRO_PERCENT ELSE HRA_NON_METRO_PERCENT)
                    * basicAnnual) \div 100
  IN  Min(Min(optionA, optionB), optionC)

\* calculateHraExemption.  basic_salary is a multiple of 10 in every profile
\* of this model, so the percentages of basic are whole rupees.
calculateHraExemption(basicAnnual, hraReceivedAnnual, rentPaidAnnual, isMetro) ==
  LET optionA == hraReceivedAnnual
      optionB == rentPaidAnnual - (HRA_RENT_MINUS_BASIC_PERCENT * basicAnnual) \div 100
      optionC == ((IF isMetro THEN HRA_METRO_PERCENT ELSE HRA_NON_METRO_PERCENT)
                    * basicAnnual) \div 100
  IN  Max(Min(Min(optionA, optionB), optionC), 0)

\* Math.round(amount * marginal * (1 + CESS_RATE)), marginal in percent.
ComponentSaving(amount, marginal) ==
  RoundDiv(amount * marginal * (100 + CESS_RATE), 10000)

\* Marginal old-regime rate at the GTI of the profile as declared; the checks
\* call getMarginalRate(gti, 'old', fy) and leave the age category to default.
MarginalAtGti(profile) ==
  getMarginalRate(computeOldRegimeTaxableIncome(profile, NoOverrides).gross_total_income,
                  "old", profile.financial_year, "below_60")

\* ------------------------------------------------------------------------
\* Check 2: check80c (80c_gap)
\* ------------------------------------------------------------------------

check80c(profile) ==
  LET fy == profile.financial_year
      current80c == Min(profile.deduction_80c + profile.deduction_80ccc
                          + profile.deduction_80ccd_1, LIMIT_80C)
      epf == profile.epf_employee_contribution
      gap == Max(LIMIT_80C - current80c, 0)
      marginal == MarginalAtGti(profile)
      taxSaved == ComponentSaving(gap, marginal)
  IN  IF gap <= 0
        THEN createFinding("80c_gap", "optimized",
               <<"80C fully utilized at", current80c>>, 0, <<"N/A">>,
               [epf_contribution |-> epf, current_80c_total |-> current80c,
                limit |-> LIMIT_80C, gap |-> 0])
        ELSE createFinding("80c_gap", "opportunity",
               <<"gap in 80C limit", gap, epf>>, taxSaved,
               <<"March 31 (for FY ", fy, " deduction)">>,
               [epf_contribution |-> epf, current_80c_total |-> current80c,
                limit |-> LIMIT_80C, gap |-> gap, marginal_rate |-> marginal,
                tax_saved_component |-> taxSaved])

\* ------------------------------------------------------------------------
\* Check 3: check80d (80d_check)
\* ------------------------------------------------------------------------

check80d(profile, o) ==
  LET parentsSenior == o.parentsSenior
      selfSenior == o.selfSenior
      fy == profile.financial_year
      current80d == profile.deduction_80d
      selfLimit == IF selfSenior THEN LIMIT_80D_SELF_SENIOR ELSE LIMIT_80D_SELF_BELOW_60
      parentsLimit == IF parentsSenior THEN LIMIT_80D_PARENTS_SENIOR
                                       ELSE LIMIT_80D_PARENTS_BELOW_60
      totalLimit == selfLimit + parentsLimit
      additional80d == totalLimit - current80d
      recommendedPremium == IF current80d = 0 THEN parentsLimit ELSE additional80d
      marginal == MarginalAtGti(profile)
      taxSaved == ComponentSaving(recommendedPremium, marginal)
  IN  IF current80d >= totalLimit
        THEN createFinding("80d_check", "optimized",
               <<"80D fully utilized at", current80d>>, 0, <<"N/A">>,
               [self_family_claimed |-> current80d, self_family_limit |-> selfLimit,
                parents_limit |-> parentsLimit, total_limit |-> totalLimit])
        ELSE createFinding("80d_check", "opportunity",
               IF current80d = 0
                 THEN <<"Parents have no health insurance", recommendedPremium, taxSaved>>
                 ELSE <<"additional 80D deduction available", additional80d>>,
               taxSaved,
               <<"March 31 (for FY ", fy, " deduction)">>,
               [self_family_claimed |-> current80d, self_family_limit |-> selfLimit,
                parents_claimed |-> 0, parents_limit |-> parentsLimit,
                parents_senior |-> parentsSenior,
                recommended_premium |-> recommendedPremium,
                marginal_rate |-> marginal, tax_saved_component |-> taxSaved])

\* ------------------------------------------------------------------------
\* Check 4: checkHra (hra_optimizer), display only
\* ------------------------------------------------------------------------

checkHra(profile) ==
  LET rentAnnual == profile.monthly_rent * 12
      optimalExemption == calculateHraExemption(profile.basic_salary,
                            profile.hra_received, rentAnnual, is_metro(profile))
      currentExemption == profile.hra_exemption
  IN  IF profile.hra_received <= 0 \/ profile.monthly_rent <= 0
        THEN createFinding("hra_optimizer", "not_applicable",
               <<"No HRA received or no rent paid">>, 0, <<"N/A">>,
               [hra_received |-> profile.hra_received,
                monthly_rent |-> profile.monthly_rent])
      ELSE IF optimalExemption <= 0
        THEN createFinding("hra_optimizer", "not_applicable",
               <<"Rent is too low relative to basic salary for HRA benefit">>,
               0, <<"N/A">>,
               [rent_annual |-> rentAnnual, hra_received |-> profile.hra_received,
                optimal_exemption |-> 0])
      ELSE IF currentExemption > 0 /\ currentExemption >= optimalExemption
        THEN createFinding("hra_optimizer", "optimized",
               <<"HRA exemption already claimed at", currentExemption>>,
               0, <<"N/A">>,
               [rent_annual |-> rentAnnual, hra_received |-> profile.hra_received,
                current_exemption |-> currentExemption,
                optimal_exemption |-> optimalExemption])
      ELSE createFinding("hra_optimizer", "opportunity",
               <<"Paying rent but claiming", profile.monthly_rent, currentExemption,
                 optimalExemption>>,
               0, <<"Include in ITR filing by July 31">>,
               [rent_annual |-> rentAnnual, hra_received |-> profile.hra_received,
                optimal_exemption |-> optimalExemption,
                current_exemption |-> currentExemption,
                is_metro |-> is_metro(profile)])

\* ------------------------------------------------------------------------
\* Check 6: checkNps (nps_check)
\* ------------------------------------------------------------------------

checkNps(profile) ==
  LET fy == profile.financial_year
      currentNps1b == profile.deduction_80ccd_1b
      gap == Max(LIMIT_80CCD_1B - currentNps1b, 0)
      marginal == MarginalAtGti(profile)
      taxSaved == ComponentSaving(gap, marginal)
  IN  IF gap <= 0
        THEN createFinding("nps_check", "optimized",
               <<"NPS 80CCD(1B) fully utilized at", currentNps1b>>, 0, <<"N/A">>,
               [current_nps_1b |-> currentNps1b, limit_1b |-> LIMIT_80CCD_1B, gap |-> 0])
        ELSE createFinding("nps_check", "opportunity",
               <<"NPS contribution saves", gap, taxSaved>>, taxSaved,
               <<"March 31 (for FY ", fy, " deduction)">>,
               [current_nps_1b |-> currentNps1b, limit_1b |-> LIMIT_80CCD_1B,
                gap |-> gap, marginal_rate |-> marginal,
                tax_saved_component |-> taxSaved])

\* ------------------------------------------------------------------------
\* Check 7: checkHomeLoan (home_loan_check), display only
\* ------------------------------------------------------------------------

checkHomeLoan(profile) ==
  LET interestPaid == profile.deduction_24b
      fy == profile.financial_year
      capped == Min(interestPaid, LIMIT_24B_SELF_OCCUPIED)
      marginal == MarginalAtGti(profile)
      displaySaving == ComponentSaving(capped, marginal)
  IN  IF interestPaid <= 0
        THEN createFinding("home_loan_check", "not_applicable",
               <<"No home loan interest declared">>, 0, <<"N/A">>,
               [home_loan_interest |-> 0])
        ELSE createFinding("home_loan_check", "opportunity",
               <<"home loan interest deduction saves", capped, displaySaving>>,
               0, <<"Include in ITR filing by July 31 (FY ", fy, ")">>,
               [home_loan_interest |-> interestPaid, capped_amount |-> capped,
                limit |-> LIMIT_24B_SELF_OCCUPIED, marginal_rate |-> marginal,
                display_saving |-> displaySaving])

\* ------------------------------------------------------------------------
\* Check 1: checkRegime (regime_arbitrage)
\* ------------------------------------------------------------------------

\* const recommended = savings > 0 ? 'old' : 'new'
Recommended(savings) == IF savings > 0 THEN "old" ELSE "new"

\* A branch test that also takes a zero delta for an opportunity.
SwitchIsOpportunity_NonNegative(savings) == savings >= 0

\* if (savings > 0): the opportunity branch, else the optimized branch.
SwitchIsOpportunity(savings) == savings > 0

\* An optimum that assumes a home loan at the full limit.
Optimal24b_FullLimit(profile) == LIMIT_24B_SELF_OCCUPIED

\* Home loan interest: the declared amount, capped at the limit.
Optimal24b(profile) == Min(profile.deduction_24b, LIMIT_24B_SELF_OCCUPIED)

checkRegime(profile, o) ==
  LET parentsSenior == o.parentsSenior
      selfSenior == o.selfSenior
      ageCategory == IF selfSenior THEN "senior" ELSE "below_60"
      fy == profile.financial_year
      newTaxable == computeNewRegimeTaxableIncome(profile)
      newTax == calculateNewRegimeTax(newTaxable, fy).total_tax
      optimalHra == IF profile.hra_received > 0 /\ profile.monthly_rent > 0
                      THEN calculateHraExemption(profile.basic_salary,
                             profile.hra_received, profile.monthly_rent * 12,
                             is_metro(profile))
                      ELSE 0
      optimal80c == LIMIT_80C
      selfLimit == IF selfSenior THEN LIMIT_80D_SELF_SENIOR ELSE LIMIT_80D_SELF_BELOW_60
      parentsLimit == IF parentsSenior THEN LIMIT_80D_PARENTS_SENIOR
                                       ELSE LIMIT_80D_PARENTS_BELOW_60
      optimal80dTarget == IF selfSenior THEN selfLimit + parentsLimit ELSE parentsLimit
      optimal80d == Max(profile.deduction_80d, optimal80dTarget)
      optimalNps1b == LIMIT_80CCD_1B
      optimal24b == Optimal24b(profile)
      oldBreakdown == computeOldRegimeTaxableIncome(profile,
                        [hraExemption |-> optimalHra, total80c |-> optimal80c,
                         total80d |-> optimal80d, total80ccd1b |-> optimalNps1b,
                         total24b |-> optimal24b])
      oldTaxable == oldBreakdown.taxable_income
      oldTax == calculateOldRegimeTax(oldTaxable, fy, ageCategory).total_tax
      savings == newTax - oldTax
      recommended == Recommended(savings)
      current80c == profile.deduction_80c + profile.deduction_80ccc
                      + profile.deduction_80ccd_1
      gap80c == LIMIT_80C - current80c
      neededKeys ==
        {k \in {"hra_exemption", "section_80c", "section_80c_gap", "section_80d",
                "section_80ccd_1b", "section_24b"} :
           CASE k = "hra_exemption" -> optimalHra > profile.hra_exemption
             [] k \in {"section_80c", "section_80c_gap"} -> gap80c > 0
             [] k = "section_80d" -> optimal80d > profile.deduction_80d
             [] k = "section_80ccd_1b" -> optimalNps1b > profile.deduction_80ccd_1b
             [] OTHER -> optimal24b > 0}
      deductionsNeeded ==
        [k \in neededKeys |->
           CASE k = "hra_exemption" -> optimalHra
             [] k = "section_80c" -> optimal80c
             [] k = "section_80c_gap" -> gap80c
             [] k = "section_80d" -> optimal80d
             [] k = "section_80ccd_1b" -> optimalNps1b
             [] OTHER -> optimal24b]
  IN  IF SwitchIsOpportunity(savings)
        THEN createFinding("regime_arbitrage", "opportunity",
               <<"Switching to old regime with full deductions saves", savings>>,
               savings,
               <<"July 31 (ITR filing) - but investments needed before March 31">>,
               [new_regime_tax |-> newTax, new_regime_taxable |-> newTaxable,
                old_regime_tax |-> oldTax, old_regime_taxable |-> oldTaxable,
                recommended_regime |-> recommended,
                old_regime_breakdown |-> oldBreakdown,
                deductions_needed |-> deductionsNeeded])
        ELSE createFinding("regime_arbitrage", "optimized",
               <<"New regime is already optimal", -savings>>,
               0, <<"N/A">>,
               [new_regime_tax |-> newTax, new_regime_taxable |-> newTaxable,
                old_regime_tax |-> oldTax, old_regime_taxable |-> oldTaxable,
                recommended_regime |-> recommended,
                old_regime_breakdown |-> oldBreakdown])

\* ------------------------------------------------------------------------
\* Check 5: checkCapitalGains (capital_gains)
\* ------------------------------------------------------------------------

RECURSIVE SumGain(_)
SumGain(hs) == IF hs = <<>> THEN 0 ELSE Head(hs).gain + SumGain(Tail(hs))

\* A default that takes the clock's date itself for the reference date.
DefaultAsOf_Today(now) == now

\* The reference date when opts.asOf is not given: the March 31 that ends
\* the financial year of the clock's date.
DefaultAsOf(now) ==
  IF now.m < 3 THEN [y |-> now.y, m |-> 2, d |-> 31]
               ELSE [y |-> now.y + 1, m |-> 2, d |-> 31]

\* Math.round(gain * STCG_RATE * (1 + CESS_RATE)).
StcgTax(gain) == RoundDiv(gain * ((STCG_RATE * (100 + CESS_RATE)) \div 100), 1000)

\* Math.round(ltcg * LTCG_RATE * (1 + CESS_RATE)); the product of the two
\* rates is exactly 13%.
LtcgTax(ltcg) == RoundDiv(ltcg * ((LTCG_RATE * (100 + CESS_RATE)) \div 1000), 100)

\* exemptionRemaining = Math.max(LTCG_EXEMPTION - realized_ltcg_this_fy, 0).
ExemptionRemaining(hold) == Max(LTCG_EXEMPTION - hold.realized_ltcg_this_fy, 0)

\* details.holding_period_alerts and details.unrealized_losses are set only
\* when non-empty; an absent list is the empty list here.
checkCapitalGains(hold, asOfOpt, now) ==
  LET asOf == IF asOfOpt = NullDate THEN DefaultAsOf(now) ELSE asOfOpt
      hs == hold.holdings
      ltSel == SelectSeq(hs, LAMBDA h : isLongTerm(h, asOf) /\ unrealized_gain(h) > 0)
      stSel == SelectSeq(hs, LAMBDA h : ~isLongTerm(h, asOf))
      alertSel == SelectSeq(stSel, LAMBDA h :
                    /\ holdingMonths(h, asOf) >= 10
                    /\ holdingMonths(h, asOf) <= 12
                    /\ unrealized_gain(h) > 0)
      lossSel == SelectSeq(hs, LAMBDA h : unrealized_gain(h) < 0)
      ltcgHoldings ==
        [i \in 1..Len(ltSel) |->
           [name |-> ltSel[i].security_name, gain |-> unrealized_gain(ltSel[i]),
            months |-> holdingMonths(ltSel[i], asOf),
            cost |-> total_cost(ltSel[i]), value |-> current_value(ltSel[i])]]
      stcgHoldings ==
        [i \in 1..Len(stSel) |->
           [name |-> stSel[i].security_name, gain |-> unrealized_gain(stSel[i]),
            months |-> holdingMonths(stSel[i], asOf),
            months_to_ltcg |-> IF holdingMonths(stSel[i], asOf) < 13
                                 THEN 13 - holdingMonths(stSel[i], asOf) ELSE 0,
            cost |-> total_cost(stSel[i]), value |-> current_value(stSel[i])]]
      holdingPeriodAlerts ==
        [i \in 1..Len(alertSel) |->
           [security |-> alertSel[i].security_name,
            months_held |-> holdingMonths(alertSel[i], asOf),
            months_to_ltcg |-> 13 - holdingMonths(alertSel[i], asOf),
            gain |-> unrealized_gain(alertSel[i]),
            stcg_tax |-> StcgTax(unrealized_gain(alertSel[i]))]]
      totalUnrealizedLtcg == SumGain(ltcgHoldings)
      totalUnrealizedStcg == SumGain(SelectSeq(stcgHoldings, LAMBDA h : h.gain > 0))
      exemptionRemaining == ExemptionRemaining(hold)
      harvestableLtcg == Min(totalUnrealizedLtcg, exemptionRemaining)
      futureTaxSaved == LtcgTax(harvestableLtcg)
      harvestSel == SelectSeq(ltcgHoldings, LAMBDA h : h.gain > 0)
      holdingsToHarvest == [i \in 1..Len(harvestSel) |-> harvestSel[i].name]
      unrealizedLosses ==
        [i \in 1..Len(lossSel) |->
           [name |-> lossSel[i].security_name,
            loss |-> -unrealized_gain(lossSel[i]),
            is_long_term |-> isLongTerm(lossSel[i], asOf)]]
  IN  IF Len(hs) = 0
        THEN createFinding("capital_gains", "not_applicable",
               <<"No investment holdings to analyze">>, 0, <<"N/A">>,
               EmptyObject)
      ELSE IF harvestableLtcg <= 0 /\ Len(holdingPeriodAlerts) = 0
        THEN createFinding("capital_gains", "optimized",
               <<"No harvestable LTCG or holding period optimizations found">>,
               0, <<"N/A">>,
               [unrealized_ltcg |-> totalUnrealizedLtcg,
                unrealized_stcg |-> totalUnrealizedStcg,
                ltcg_exemption_limit |-> LTCG_EXEMPTION])
      ELSE createFinding("capital_gains", "opportunity",
               <<"unrealized LTCG can be harvested tax-free", totalUnrealizedLtcg,
                 futureTaxSaved>>,
               futureTaxSaved,
               <<"March 31 (end of financial year)">>,
               [unrealized_ltcg |-> totalUnrealizedLtcg,
                unrealized_stcg |-> totalUnrealizedStcg,
                realized_ltcg_this_fy |-> hold.realized_ltcg_this_fy,
                ltcg_exemption_limit |-> LTCG_EXEMPTION,
                exemption_used |-> harvestableLtcg,
                exemption_remaining |-> exemptionRemaining - harvestableLtcg,
                future_tax_saved |-> futureTaxSaved,
                holdings_to_harvest |-> holdingsToHarvest,
                holding_period_alerts |-> holdingPeriodAlerts,
                unrealized_losses |-> unrealizedLosses])

\* ------------------------------------------------------------------------
\* Orchestrator: runAllChecks
\* ------------------------------------------------------------------------

\* A loop body that rewrites the status but leaves check.savings alone.
Suppress_KeepSavings(check) ==
  [check EXCEPT
     !.status = "not_applicable",
     !.finding = IF check.savings > 0
                   THEN <<"Not applicable under new regime (would save)", check.savings>>
                   ELSE @]

\* Step 2 for one finding: the loop body over deductionChecks.
Suppress(check) ==
  [check EXCEPT
     !.savings = 0,
     !.status = "not_applicable",
     !.finding = IF check.savings > 0
                   THEN <<"Not applicable under new regime (would save)", check.savings>>
                   ELSE @]

\* Array.prototype.sort((a, b) => b.savings - a.savings): stable, descending.
\* An insertion that puts a finding ahead of the earlier ones it ties with.
InsertBySavings_AheadOfTies(sorted, c) ==
  SelectSeq(sorted, LAMBDA earlier : earlier.savings > c.savings)
    \o <<c>>
    \o SelectSeq(sorted, LAMBDA earlier : earlier.savings <= c.savings)

RECURSIVE InsertBySavings(_, _)
InsertBySavings(sorted, c) ==
  IF sorted = <<>> THEN <<c>>
  ELSE IF Head(sorted).savings >= c.savings
    THEN <<Head(sorted)>> \o InsertBySavings(Tail(sorted), c)
    ELSE <<c>> \o sorted

RECURSIVE SortBySavings(_)
SortBySavings(checks) ==
  IF checks = <<>> THEN <<>>
  ELSE With(SortBySavings(SubSeq(checks, 1, Len(checks) - 1)),
            LAMBDA front : InsertBySavings(front, checks[Len(checks)]))

\* generateSummary: the headline and the opportunities it lists.
generateSummary(profile, checks, totalSavings, recommendedRegime) ==
  LET opportunities == SelectSeq(checks, LAMBDA c : c.status = "opportunity")
      listed == SelectSeq(opportunities, LAMBDA c : c.savings > 0)
  IN  IF totalSavings > 0
        THEN [headline |-> <<"TaxHawk found", totalSavings, profile.financial_year>>,
              switch_line |-> recommendedRegime = "old" /\ profile.regime = "new",
              count |-> Len(opportunities),
              lines |-> [i \in 1..Len(listed) |->
                           <<listed[i].check_id, listed[i].savings>>]]
        ELSE [headline |-> <<"Your tax setup is already well-optimized",
                             profile.financial_year>>,
              switch_line |-> FALSE, count |-> 0, lines |-> <<>>]

\* The options the orchestrator hands to checkRegime and check80d: it reads
\* opts.parentsSenior and opts.cgAsOf only, and the checks default selfSenior.
CheckOpts(o) == [parentsSenior |-> o.parentsSenior, selfSenior |-> FALSE]

\* A total that adds up the savings of every finding.
TotalSavings_AllFindings(allChecks) ==
  allChecks[1].savings + allChecks[2].savings + allChecks[3].savings
    + allChecks[4].savings + allChecks[5].savings + allChecks[6].savings
    + allChecks[7].savings

\* A total that takes the raw regime delta instead of the finding's savings.
TotalSavings_RawDelta(allChecks) ==
  (allChecks[1].details.new_regime_tax - allChecks[1].details.old_regime_tax)
    + allChecks[5].savings

\* Step 3: totalSavings = regimeResult.savings + resultCg.savings, the first
\* and the fifth entry of allChecks before it is sorted.
TotalSavings(allChecks) == allChecks[1].savings + allChecks[5].savings

\* A suppression list that also holds the capital-gains finding.
deductionChecks_WithCapitalGains ==
  {"80c_gap", "80d_check", "hra_optimizer", "capital_gains", "nps_check",
   "home_loan_check"}

\* The findings Step 2 rewrites when the recommended regime is new.
deductionChecks == {"80c_gap", "80d_check", "hra_optimizer", "nps_check", "home_loan_check"}

runAllChecks(profile, holdingsArg, o, now) ==
  LET hold == IF holdingsArg = NullHoldings THEN EmptyHoldings ELSE holdingsArg
      Results(initial) ==
        LET regimeResult == initial[1]
            recommendedRegime == regimeResult.details.recommended_regime
            Report(allChecks) ==
              LET totalSavings == TotalSavings(allChecks)
                  Sorted(sorted) ==
                    [user_name |-> profile.employee_name,
                     financial_year |-> profile.financial_year,
                     current_regime |-> profile.regime,
                     recommended_regime |-> recommendedRegime,
                     total_savings |-> totalSavings,
                     checks |-> sorted,
                     summary |-> generateSummary(profile, sorted, totalSavings,
                                                 recommendedRegime)]
              IN  With(SortBySavings(allChecks), Sorted)
        IN  With([i \in 1..7 |->
                    IF recommendedRegime = "new"
                         /\ initial[i].check_id \in deductionChecks
                      THEN Suppress(initial[i]) ELSE initial[i]],
                 Report)
  IN  With(<<checkRegime(profile, CheckOpts(o)),
             check80c(profile),
             check80d(profile, CheckOpts(o)),
             checkHra(profile),
             checkCapitalGains(hold, o.cgAsOf, now),
             checkNps(profile),
             checkHomeLoan(profile)>>,
           Results)

\* The finding with a given check_id in a report.
ById(report, id) ==
  LET i == CHOOSE j \in 1..Len(report.checks) : report.checks[j].check_id = id
  IN  report.checks[i]

\* ------------------------------------------------------------------------
\* Redemption planner: computeRedemptionTax
\* ------------------------------------------------------------------------

\* tax / ltcg when ltcg > 0, else 0; kept as the fraction.
EffectiveRate(tax, ltcg) == IF ltcg > 0 THEN [num |-> tax, den |-> ltcg] ELSE [num |-> 0, den |-> 1]

\* The difference taken the other way round.
SplitSavings_Reversed(oneFyTax, splitTotalTax) == splitTotalTax - oneFyTax

\* splitSavings = oneFyTax - splitTotalTax
SplitSavings(oneFyTax, splitTotalTax) == oneFyTax - splitTotalTax

computeRedemptionTax(plannedLtcg, o) ==
  LET ltcg == Max(plannedLtcg, 0)
      exemptionRemaining == Override(o, "exemptionRemaining", LTCG_EXEMPTION)
      exemptionNextFy == Override(o, "exemptionNextFy", LTCG_EXEMPTION)
      oneFyTaxable == Max(ltcg - exemptionRemaining, 0)
      oneFyTax == LtcgTax(oneFyTaxable)
      sellFy1 == Min(ltcg, exemptionRemaining)
      taxFy1 == 0
      remainingAfterFy1 == ltcg - sellFy1
      taxableFy2 == Max(remainingAfterFy1 - exemptionNextFy, 0)
      taxFy2 == LtcgTax(taxableFy2)
      splitTotalTax == taxFy1 + taxFy2
      splitSavings == SplitSavings(oneFyTax, splitTotalTax)
  IN  [planned_ltcg |-> ltcg,
       one_fy |-> [taxable |-> oneFyTaxable, tax |-> oneFyTax,
                   effective_rate |-> EffectiveRate(oneFyTax, ltcg),
                   exemption_used |-> Min(ltcg, exemptionRemaining)],
       split_fy |-> [sell_fy1 |-> sellFy1, tax_fy1 |-> taxFy1,
                     sell_fy2 |-> remainingAfterFy1, taxable_fy2 |-> taxableFy2,
                     tax_fy2 |-> taxFy2, total_tax |-> splitTotalTax,
                     effective_rate |-> EffectiveRate(splitTotalTax, ltcg)],
       split_beneficial |-> splitSavings > 0,
       split_savings |-> splitSavings,
       exemption_remaining |-> exemptionRemaining,
       exemption_next_fy |-> exemptionNextFy]

\* ------------------------------------------------------------------------
\* Inputs
\* ------------------------------------------------------------------------

\* Longest holdings list.
MaxHoldings == 2

\* Largest number of rupees above a surcharge threshold tried one by one.
MaxDelta == 3

\* "2023-24" has no entry in the year-keyed tables.
FinancialYears == {"2024-25", "2025-26", "2023-24"}

AgeCategories == {"below_60", "senior", "super_senior"}

\* demoProfile.js: PRIYA_PROFILE through createSalaryProfile.
Priya ==
  [financial_year |-> "2024-25", employee_name |-> "Priya Sharma",
   gross_salary |-> 1500000, basic_salary |-> 600000, hra_received |-> 300000,
   hra_exemption |-> 0, lta_exemption |-> 0, other_exemptions |-> 0,
   professional_tax |-> 2400,
   deduction_80c |-> 72000, deduction_80ccc |-> 0, deduction_80ccd_1 |-> 0,
   deduction_80ccd_1b |-> 0, deduction_80ccd_2 |-> 0, deduction_80d |-> 0,
   deduction_80e |-> 0, deduction_80g |-> 0, deduction_80tta |-> 0,
   deduction_24b |-> 0, other_deductions |-> 0,
   regime |-> "new", city |-> "mumbai", monthly_rent |-> 25000,
   epf_employee_contribution |-> 72000]

\* <<gross_salary, basic_salary, hra_received>>
SalaryLevels ==
  { <<600000, 300000, 0>>, <<900000, 360000, 180000>>, <<1500000, 600000, 300000>> }

\* What a profile declares beyond its salary:
\* <<monthly_rent, city, hra_exemption, lta_exemption, 80c, 80d, 80ccd_1b, 24b>>
Declarations ==
  { <<25000, "mumbai", 0, 0, 72000, 0, 0, 0>>,
    <<0, "mumbai", 0, 0, 0, 0, 0, 0>>,
    <<25000, "Pune", 0, 0, 150000, 75000, 50000, 0>>,
    <<25000, "mumbai", 0, 0, 72000, 10000, 0, 200000>>,
    <<0, "pune", 0, 0, 72000, 49999, 20000, 300000>>,
    <<25000, "Mumbai", 240000, 0, 72000, 0, 0, 0>>,
    <<0, "mumbai", 0, 600000, 72000, 0, 0, 0>>,
    <<3000, "mumbai", 0, 0, 160000, 25000, 60000, 100000>>,
    <<0, "mumbai", 120000, 0, 150000, 25000, 50000, 0>> }

Profiles ==
  { [Priya EXCEPT !.financial_year = fy,
                  !.gross_salary = lv[1], !.basic_salary = lv[2],
                  !.hra_received = lv[3],
                  !.monthly_rent = d[1], !.city = d[2], !.hra_exemption = d[3],
                  !.lta_exemption = d[4], !.deduction_80c = d[5],
                  !.deduction_80d = d[6], !.deduction_80ccd_1b = d[7],
                  !.deduction_24b = d[8]] :
      fy \in FinancialYears, lv \in SalaryLevels, d \in Declarations }

\* The "Low Earner" of the new-regime edge case tests.
LowEarner ==
  [Priya EXCEPT !.employee_name = "Low Earner", !.gross_salary = 600000,
                !.basic_salary = 300000, !.hra_received = 0, !.deduction_80c = 0,
                !.monthly_rent = 0, !.epf_employee_contribution = 0]

FyEnd == [y |-> 2025, m |-> 2, d |-> 31]

\* Holdings a portfolio is made of; whole-rupee prices, quantity 1.
Holding(name, type, py, pm, cost, value) ==
  [security_name |-> name, security_type |-> type,
   purchase_date |-> [y |-> py, m |-> pm, d |-> 1],
   purchase_price |-> cost, quantity |-> 1, current_price |-> value]

HoldingKinds ==
  { Holding("Nifty index fund", "equity_mf", 2023, 0, 0, 37400),
    Holding("Blue chip shares", "equity_share", 2022, 5, 100000, 275000),
    Holding("Recent shares", "equity_share", 2024, 3, 50000, 70000),
    Holding("Debt fund", "debt_mf", 2023, 5, 40000, 35000),
    Holding("Tax saver ELSS", "elss", 2023, 5, 50000, 80000),
    Holding("Liquid fund", "debt_mf", 2024, 4, 100000, 108000) }

HoldingLists == UNION { [1..n -> HoldingKinds] : n \in 0..MaxHoldings }

RealizedLtcg == {0, 100000, 125000, -100000}

HoldingsInputs ==
  {NullHoldings} \cup
  { [holdings |-> hs, realized_stcg_this_fy |-> 0, realized_ltcg_this_fy |-> r] :
      hs \in HoldingLists, r \in RealizedLtcg }

\* A portfolio with the unrealized LTCG of the demo portfolio (37 400, tax
\* saved 4 862) in one long-term holding, and one short-term holding that is
\* eleven months old at the end of the financial year.
PriyaHoldings ==
  [holdings |-> << Holding("Nifty index fund", "equity_mf", 2023, 0, 0, 37400),
                   Holding("Recent shares", "equity_share", 2024, 3, 50000, 70000) >>,
   realized_stcg_this_fy |-> 0, realized_ltcg_this_fy |-> 0]

\* The clock's date when the orchestrator runs.
Clocks ==
  { [y |-> 2025, m |-> 0, d |-> 15], [y |-> 2025, m |-> 2, d |-> 1],
    [y |-> 2025, m |-> 5, d |-> 10] }

\* <<profile, holdings, options, clock>>: every profile with two portfolios
\* and every age flag, and two profiles with every portfolio, reference date
\* and clock.
EngineInputs ==
  { <<p, h, [parentsSenior |-> ps, selfSenior |-> ss, cgAsOf |-> FyEnd],
      [y |-> 2025, m |-> 0, d |-> 15]>> :
      p \in Profiles, h \in {NullHoldings, PriyaHoldings}, ps \in BOOLEAN,
      ss \in BOOLEAN }
  \cup
  { <<p, h, [parentsSenior |-> FALSE, selfSenior |-> FALSE, cgAsOf |-> a], c>> :
      p \in {Priya, LowEarner}, h \in HoldingsInputs, a \in {NullDate, FyEnd},
      c \in Clocks }

SurchargeThresholds == {5000000, 10000000, 20000000, 50000000}

Incomes ==
  {0, 250000, 300000, 450000, 500000, 500001, 600000, 700000, 700001, 982600,
   1200000, 1200001, 1422600, 60000000}
  \cup { t + dl : t \in SurchargeThresholds,
                  dl \in (0..MaxDelta) \cup {10, 52780, 100000} }

TaxInputs ==
  { [income |-> x, fy |-> fy, ageCategory |-> a] :
      x \in Incomes, fy \in FinancialYears, a \in AgeCategories }

\* <<plannedLtcg, opts>>; an omitted key of opts is undefined.
RedemptionInputs ==
  { <<pl, o>> :
      pl \in {-5, 0, 100000, 125000, 200000, 250000, 300000},
      o \in {EmptyObject}
            \cup { [exemptionRemaining |-> er] : er \in {0, 62500, 125000} }
            \cup { [exemptionRemaining |-> er, exemptionNextFy |-> en] :
                     er \in {-50000, 0, 62500, 125000},
                     en \in {-100000, 0, 125000} } }

\* ------------------------------------------------------------------------
\* Specification of the orchestrator: one call of runAllChecks on inputs
\* drawn from EngineInputs.
\* ------------------------------------------------------------------------

Init ==
  /\ pc = "ready"
  /\ wizard = Idle /\ app = Idle
  /\ \E in \in EngineInputs :
       /\ salary = in[1]
       /\ holdings = in[2]
       /\ opts = in[3]
       /\ today = in[4]
  /\ result = Idle
  /\ taxIn = Idle /\ taxOut = Idle /\ redIn = Idle /\ redOut = Idle
  /\ dateIn = Idle /\ dateOut = Idle

RunAllChecks ==
  /\ pc = "ready"
  /\ result' = runAllChecks(salary, holdings, opts, today)
  /\ pc' = "done"
  /\ UNCHANGED <<salary, holdings, opts, today, taxIn, taxOut, redIn, redOut,
               dateIn, dateOut, wizard, app>>

Next == RunAllChecks

Spec == Init /\ [][Next]_vars

\* ------------------------------------------------------------------------
\* Specification of the tax functions: one call of a calculator on a
\* taxable income, or of a taxable-income derivation on a profile.
\* ------------------------------------------------------------------------

InitTax ==
  /\ pc = "ready"
  /\ wizard = Idle /\ app = Idle
  /\ \/ taxIn \in TaxInputs /\ salary = Idle
     \/ taxIn = Idle /\ salary \in Profiles
  /\ taxOut = Idle
  /\ holdings = Idle /\ opts = Idle /\ today = Idle /\ result = Idle
  /\ redIn = Idle /\ redOut = Idle
  /\ dateIn = Idle /\ dateOut = Idle

CalculateNewRegimeTax ==
  /\ pc = "ready" /\ taxIn # Idle
  /\ taxOut' = [fn |-> "calculateNewRegimeTax",
                value |-> calculateNewRegimeTax(taxIn.income, taxIn.fy)]
  /\ pc' = "done"
  /\ UNCHANGED <<salary, holdings, opts, today, result, taxIn, redIn, redOut,
               dateIn, dateOut, wizard, app>>

CalculateOldRegimeTax ==
  /\ pc = "ready" /\ taxIn # Idle
  /\ taxOut' = [fn |-> "calculateOldRegimeTax",
                value |-> calculateOldRegimeTax(taxIn.income, taxIn.fy,
                                                taxIn.ageCategory)]
  /\ pc' = "done"
  /\ UNCHANGED <<salary, holdings, opts, today, result, taxIn, redIn, redOut,
               dateIn, dateOut, wizard, app>>

ComputeNewRegimeTaxableIncome ==
  /\ pc = "ready" /\ salary # Idle
  /\ taxOut' = [fn |-> "computeNewRegimeTaxableIncome",
                value |-> computeNewRegimeTaxableIncome(salary)]
  /\ pc' = "done"
  /\ UNCHANGED <<salary, holdings, opts, today, result, taxIn, redIn, redOut,
               dateIn, dateOut, wizard, app>>

ComputeOldRegimeTaxableIncome ==
  /\ pc = "ready" /\ salary # Idle
  /\ taxOut' = [fn |-> "computeOldRegimeTaxableIncome",
                value |-> computeOldRegimeTaxableIncome(salary, NoOverrides)]
  /\ pc' = "done"
  /\ UNCHANGED <<salary, holdings, opts, today, result, taxIn, redIn, redOut,
               dateIn, dateOut, wizard, app>>

NextTax ==
  \/ CalculateNewRegimeTax
  \/ CalculateOldRegimeTax
  \/ ComputeNewRegimeTaxableIncome
  \/ ComputeOldRegimeTaxableIncome

SpecTax == InitTax /\ [][NextTax]_vars

\* ------------------------------------------------------------------------
\* Specification of the redemption planner: one call of computeRedemptionTax.
\* ------------------------------------------------------------------------

InitRedeem ==
  /\ pc = "ready"
  /\ wizard = Idle /\ app = Idle
  /\ redIn \in RedemptionInputs
  /\ redOut = Idle
  /\ salary = Idle /\ holdings = Idle /\ opts = Idle /\ today = Idle
  /\ result = Idle /\ taxIn = Idle /\ taxOut = Idle
  /\ dateIn = Idle /\ dateOut = Idle

ComputeRedemptionTax ==
  /\ pc = "ready"
  /\ redOut' = computeRedemptionTax(redIn[1], redIn[2])
  /\ pc' = "done"
  /\ UNCHANGED <<salary, holdings, opts, today, result, taxIn, taxOut, redIn,
               dateIn, dateOut, wizard, app>>

NextRedeem == ComputeRedemptionTax

SpecRedeem == InitRedeem /\ [][NextRedeem]_vars

\* ------------------------------------------------------------------------
\* Specification of the holding model: createHolding on raw holding data,
\* then one call of holdingMonths or isLongTerm, in a runtime timezone.
\* ------------------------------------------------------------------------

SecurityTypes == {"equity_share", "equity_mf", "debt_mf", "elss", "other"}

\* Offsets from UTC in minutes: New York (winter), UTC, India.
Timezones == {-300, 0, 330}

\* Calendar days of purchase; the estimator's synthetic holding is bought on
\* 2023-01-01.
PurchaseDays ==
  { [y |-> 2023, m |-> 0, d |-> 1], [y |-> 2023, m |-> 1, d |-> 15],
    [y |-> 2023, m |-> 2, d |-> 15], [y |-> 2024, m |-> 1, d |-> 15],
    [y |-> 2024, m |-> 2, d |-> 1], [y |-> 2024, m |-> 2, d |-> 15],
    [y |-> 2024, m |-> 3, d |-> 1], [y |-> 2025, m |-> 5, d |-> 15] }

\* A calendar day as a Date built from its fields, or as an ISO string.
DateArguments(days) == days \cup { [iso |-> day] : day \in days }

HoldingData ==
  { [security_name |-> "Holding", security_type |-> t, purchase_date |-> pd,
     purchase_price |-> 0, quantity |-> 1, current_price |-> 35000] :
      t \in SecurityTypes, pd \in DateArguments(PurchaseDays) }

HoldingInputs ==
  { [data |-> h, asOf |-> a, tz |-> tz] :
      h \in HoldingData,
      a \in DateArguments({FyEnd, [y |-> 2025, m |-> 3, d |-> 1]}),
      tz \in Timezones }

InitHolding ==
  /\ pc = "ready"
  /\ wizard = Idle /\ app = Idle
  /\ dateIn \in HoldingInputs
  /\ dateOut = Idle
  /\ salary = Idle /\ holdings = Idle /\ opts = Idle /\ today = Idle
  /\ result = Idle /\ taxIn = Idle /\ taxOut = Idle
  /\ redIn = Idle /\ redOut = Idle

HoldingMonths ==
  /\ pc = "ready"
  /\ dateOut' = [fn |-> "holdingMonths",
                 value |-> holdingMonths(createHolding(dateIn.data, dateIn.tz),
                                         DateValue(dateIn.asOf, dateIn.tz))]
  /\ pc' = "done"
  /\ UNCHANGED <<salary, holdings, opts, today, result, taxIn, taxOut, redIn,
                 redOut, dateIn, wizard, app>>

IsLongTerm ==
  /\ pc = "ready"
  /\ dateOut' = [fn |-> "isLongTerm",
                 value |-> isLongTerm(createHolding(dateIn.data, dateIn.tz),
                                      DateValue(dateIn.asOf, dateIn.tz))]
  /\ pc' = "done"
  /\ UNCHANGED <<salary, holdings, opts, today, result, taxIn, taxOut, redIn,
                 redOut, dateIn, wizard, app>>

NextHolding == HoldingMonths \/ IsLongTerm

SpecHolding == InitHolding /\ [][NextHolding]_vars

\* ------------------------------------------------------------------------
\* Specification of the HRA formula: one call of calculateHraExemption.
\* ------------------------------------------------------------------------

\* Annual amounts; basic is a multiple of 10.
HraInputs ==
  { [basic |-> b, hra_received |-> h, rent |-> r, is_metro |-> mt] :
      b \in {0, 300000, 600000, 800000, 1000000},
      h \in {0, 100000, 300000, 400000},
      r \in {0, 50000, 300000, 360000, 500000},
      mt \in BOOLEAN }

InitHra ==
  /\ pc = "ready"
  /\ wizard = Idle /\ app = Idle
  /\ taxIn \in HraInputs
  /\ taxOut = Idle
  /\ salary = Idle /\ holdings = Idle /\ opts = Idle /\ today = Idle
  /\ result = Idle /\ redIn = Idle /\ redOut = Idle
  /\ dateIn = Idle /\ dateOut = Idle

CalculateHraExemption ==
  /\ pc = "ready"
  /\ taxOut' = [fn |-> "calculateHraExemption",
                value |-> calculateHraExemption(taxIn.basic, taxIn.hra_received,
                                                taxIn.rent, taxIn.is_metro)]
  /\ pc' = "done"
  /\ UNCHANGED <<salary, holdings, opts, today, result, taxIn, redIn, redOut,
                 dateIn, dateOut, wizard, app>>

NextHra == CalculateHraExemption

SpecHra == InitHra /\ [][NextHra]_vars

\* ------------------------------------------------------------------------
\* Properties
\* ------------------------------------------------------------------------

Reported == pc = "done" /\ result # Idle

Findings == {result.checks[i] : i \in 1..Len(result.checks)}

RECURSIVE SumSavings(_)
SumSavings(checks) ==
  IF checks = <<>> THEN 0 ELSE Head(checks).savings + SumSavings(Tail(checks))

\* C1: the report's total_savings is exactly the savings of its
\* regime_arbitrage finding plus the savings of its capital_gains finding;
\* no other finding's savings is added.
C1_TotalIsRegimePlusCapitalGains ==
  Reported =>
    result.total_savings = ById(result, "regime_arbitrage").savings
                             + ById(result, "capital_gains").savings

\* A report where the regime, capital-gains and 80C findings all carry
\* positive savings.
C1_Witness ==
  /\ Reported
  /\ ById(result, "regime_arbitrage").savings > 0
  /\ ById(result, "capital_gains").savings > 0
  /\ ById(result, "80c_gap").savings > 0

\* C2: when the recommended regime is old, total_savings is at most the sum
\* of the savings of the seven findings; when it is new, total_savings equals
\* the capital_gains finding's savings.
C2_NoDoubleCounting ==
  Reported =>
    /\ result.recommended_regime = "old" =>
         result.total_savings <= SumSavings(result.checks)
    /\ result.recommended_regime = "new" =>
         result.total_savings = ById(result, "capital_gains").savings

\* A new-regime report with capital-gains savings, in which the old regime
\* would have cost strictly more than the new one.
C2_Witness ==
  /\ Reported
  /\ result.recommended_regime = "new"
  /\ ById(result, "capital_gains").savings > 0
  /\ ById(result, "regime_arbitrage").details.old_regime_tax
       > ById(result, "regime_arbitrage").details.new_regime_tax

\* C3: when the recommended regime is new, the five deduction-based findings
\* are not_applicable with savings 0, and the capital_gains and
\* regime_arbitrage findings are what their check functions returned.
C3_NewRegimeSuppression ==
  (Reported /\ result.recommended_regime = "new") =>
    /\ \A id \in {"80c_gap", "80d_check", "hra_optimizer", "nps_check",
                  "home_loan_check"} :
         /\ ById(result, id).status = "not_applicable"
         /\ ById(result, id).savings = 0
    /\ ById(result, "capital_gains")
         = checkCapitalGains(IF holdings = NullHoldings THEN EmptyHoldings
                                                        ELSE holdings,
                             opts.cgAsOf, today)
    /\ ById(result, "regime_arbitrage") = checkRegime(salary, CheckOpts(opts))

\* A new-regime report with a capital-gains opportunity and a suppressed 80C
\* finding that would have saved tax under the old regime.
C3_Witness ==
  /\ Reported
  /\ result.recommended_regime = "new"
  /\ ById(result, "capital_gains").status = "opportunity"
  /\ ById(result, "capital_gains").savings > 0
  /\ check80c(salary).savings > 0
  /\ ById(result, "80c_gap").finding[1] = "Not applicable under new regime (would save)"

\* Tax after rebate plus surcharge (before cess), in 1/20 rupee.
PreCess20(breakdown) == breakdown.tax_after_rebate20 + 20 * breakdown.surcharge

\* The calculator of the finished call, applied to another income.
SameCallAt(income) ==
  IF taxOut.fn = "calculateNewRegimeTax"
    THEN calculateNewRegimeTax(income, taxIn.fy)
    ELSE calculateOldRegimeTax(income, taxIn.fy, taxIn.ageCategory)

TaxCalculated ==
  /\ pc = "done"
  /\ taxOut # Idle
  /\ taxOut.fn \in {"calculateNewRegimeTax", "calculateOldRegimeTax"}

\* C4: marginal relief in both regimes: for every surcharge threshold T and
\* every taxable income T + delta above it, tax after rebate plus surcharge at
\* T + delta is at most tax after rebate plus surcharge at T, plus delta.
C4_MarginalRelief ==
  TaxCalculated =>
    \A t \in SurchargeThresholds :
      taxIn.income > t =>
        PreCess20(taxOut.value)
          <= PreCess20(SameCallAt(t)) + 20 * (taxIn.income - t)

\* C5: every finding whose status is opportunity and whose check_id is neither
\* hra_optimizer nor home_loan_check has savings strictly greater than 0.
C5_OpportunityHasSavings ==
  Reported =>
    \A c \in Findings :
      (c.status = "opportunity" /\ c.check_id \notin {"hra_optimizer", "home_loan_check"})
        => c.savings > 0

\* C5 as amended: every finding whose status is opportunity has savings of
\* at least 0, and strictly more than 0 when it is the regime_arbitrage
\* finding.
C5_OpportunitySavingsAmended ==
  Reported =>
    \A c \in Findings :
      c.status = "opportunity" =>
        /\ c.savings >= 0
        /\ c.check_id = "regime_arbitrage" => c.savings > 0

\* A report that recommends the old regime and holds a capital-gains
\* opportunity made of holding-period alerts only, with savings 0.
C5_Witness ==
  /\ Reported
  /\ ById(result, "regime_arbitrage").status = "opportunity"
  /\ ById(result, "capital_gains").status = "opportunity"
  /\ ById(result, "capital_gains").savings = 0
  /\ Len(ById(result, "capital_gains").details.holding_period_alerts) > 0

\* C6: every finding whose status is optimized or not_applicable has savings
\* exactly 0.
C6_NoSavingsUnlessOpportunity ==
  Reported =>
    \A c \in Findings :
      c.status \in {"optimized", "not_applicable"} => c.savings = 0

\* A new-regime report in which the NPS check on its own had found savings
\* and the orchestrator rewrote it to not_applicable.
C6_Witness ==
  /\ Reported
  /\ result.recommended_regime = "new"
  /\ checkNps(salary).status = "opportunity"
  /\ checkNps(salary).savings > 0
  /\ ById(result, "nps_check").status = "not_applicable"

\* C7: the options reach the checks: with self_senior set, the 80d_check
\* finding uses the senior self limit and the regime finding is what
\* checkRegime returns for the same self_senior and parents_senior flags.
C7_OptionsReachChecks ==
  (Reported /\ opts.selfSenior) =>
    /\ ById(result, "80d_check").details.self_family_limit = LIMIT_80D_SELF_SENIOR
    /\ ById(result, "regime_arbitrage")
         = checkRegime(salary, [parentsSenior |-> opts.parentsSenior,
                                selfSenior |-> opts.selfSenior])

\* C8: for a financial year outside {2024-25, 2025-26} the calculators and
\* both taxable-income derivations return the FY 2024-25 result for the same
\* other inputs.
C8_UnknownYearFallsBack ==
  (pc = "done" /\ taxOut # Idle) =>
    /\ (taxIn # Idle /\ taxIn.fy \notin {"2024-25", "2025-26"}) =>
         taxOut.value =
           IF taxOut.fn = "calculateNewRegimeTax"
             THEN calculateNewRegimeTax(taxIn.income, "2024-25")
             ELSE calculateOldRegimeTax(taxIn.income, "2024-25", taxIn.ageCategory)
    /\ (salary # Idle /\ salary.financial_year \notin {"2024-25", "2025-26"}) =>
         taxOut.value =
           IF taxOut.fn = "computeNewRegimeTaxableIncome"
             THEN computeNewRegimeTaxableIncome(
                    [salary EXCEPT !.financial_year = "2024-25"])
             ELSE computeOldRegimeTaxableIncome(
                    [salary EXCEPT !.financial_year = "2024-25"], NoOverrides)

\* C9: for any holdings record, also one with a negative
\* realized_ltcg_this_fy, the remaining exemption lies between 0 and
\* 1 25 000, so the harvested gain never exceeds 1 25 000 and
\* capital_gains.savings never exceeds 16 250.
C9_ExemptionWithinLimit ==
  (Reported /\ holdings # NullHoldings) =>
    /\ ExemptionRemaining(holdings) >= 0
    /\ ExemptionRemaining(holdings) <= LTCG_EXEMPTION
    /\ ById(result, "capital_gains").savings <= LtcgTax(LTCG_EXEMPTION)
    /\ ById(result, "capital_gains").status = "opportunity" =>
         ById(result, "capital_gains").details.exemption_used <= LTCG_EXEMPTION

\* C10: for every planned amount and every pair of exemption values,
\* split_savings equals max(one_fy.tax - split_fy.total_tax, 0) and is never
\* negative.
C10_SplitSavingsClamped ==
  (pc = "done" /\ redOut # Idle) =>
    /\ redOut.split_savings = Max(redOut.one_fy.tax - redOut.split_fy.total_tax, 0)
    /\ redOut.split_savings >= 0

RedemptionPlanned == pc = "done" /\ redOut # Idle

\* C11: for every planned_ltcg > 0 and every exemption override,
\* one_fy.taxable + one_fy.exemption_used = planned_ltcg, and
\* split_beneficial is true exactly when split_fy.total_tax < one_fy.tax.
C11_ExemptionLaw ==
  (RedemptionPlanned /\ redIn[1] > 0) =>
    /\ redOut.one_fy.taxable + redOut.one_fy.exemption_used = redIn[1]
    /\ redOut.split_beneficial <=> (redOut.split_fy.total_tax < redOut.one_fy.tax)

\* A plan with part of the exemption left: some of the gain is exempt, some
\* is taxable, and splitting the sale is beneficial.
C11_Witness ==
  /\ RedemptionPlanned
  /\ redIn[1] > 0
  /\ redOut.one_fy.taxable > 0
  /\ redOut.one_fy.exemption_used > 0
  /\ redOut.one_fy.exemption_used < redIn[1]
  /\ redOut.split_beneficial

\* The report the orchestrator returns for the same profile, holdings and
\* options when the call is made at another date.
ReportAt(clock) == runAllChecks(salary, holdings, opts, clock)

\* The year in which the financial year of a date ends (April to March).
FinancialYearEnd(date) == IF date.m < 3 THEN date.y ELSE date.y + 1

\* C12: two orchestrator calls with equal profile, holdings and options
\* return equal reports whenever they are made, also when options.cg_as_of
\* is null.
C12_SameInputsSameReport ==
  Reported => \A clock \in Clocks : ReportAt(clock) = result

\* C12 as amended: two calls with equal profile, holdings and options return
\* equal reports when options.cg_as_of is given, or when both calls are made
\* in the same financial year.
C12_SameReportGivenAsOf ==
  Reported =>
    \A clock \in Clocks :
      (opts.cgAsOf # NullDate \/ FinancialYearEnd(clock) = FinancialYearEnd(today))
        => ReportAt(clock) = result

\* A report with a capital-gains opportunity computed without cg_as_of, and
\* another date of the same financial year at which the call could be made.
C12_Witness ==
  /\ Reported
  /\ opts.cgAsOf = NullDate
  /\ ById(result, "capital_gains").status = "opportunity"
  /\ \E clock \in Clocks :
       clock # today /\ FinancialYearEnd(clock) = FinancialYearEnd(today)

HoldingMeasured == pc = "done" /\ dateOut # Idle

\* What the finished call returns for the same holding data and as_of date
\* in a runtime with another timezone.
SameCallIn(tzOffset) ==
  IF dateOut.fn = "holdingMonths"
    THEN holdingMonths(createHolding(dateIn.data, tzOffset),
                       DateValue(dateIn.asOf, tzOffset))
    ELSE isLongTerm(createHolding(dateIn.data, tzOffset),
                    DateValue(dateIn.asOf, tzOffset))

\* C13: for a holding created from a given calendar purchase date (also an
\* ISO date string) and a given as_of date, holding_months and the long-term
\* classification are the same in every runtime timezone.
C13_TimezoneIndependent ==
  HoldingMeasured => \A tzOffset \in Timezones : SameCallIn(tzOffset) = dateOut.value

NewRegimeTaxCalculated == TaxCalculated /\ taxOut.fn = "calculateNewRegimeTax"

\* C14: for every taxable income and financial year, the surcharge returned
\* by calculateNewRegimeTax is at most 25% of the tax after rebate it is
\* levied on.
C14_SurchargeAtMostQuarter ==
  NewRegimeTaxCalculated =>
    80 * taxOut.value.surcharge <= taxOut.value.tax_after_rebate20

\* C14 as amended: the surcharge is at most 25% of the tax after rebate,
\* rounded to the nearest rupee.
C14_SurchargeAtMostRoundedQuarter ==
  NewRegimeTaxCalculated =>
    taxOut.value.surcharge <= RoundDiv(taxOut.value.tax_after_rebate20, 80)

\* A new-regime calculation above 5 crore, where the old regime's table
\* would levy 37%, with the surcharge at its cap.
C14_Witness ==
  /\ NewRegimeTaxCalculated
  /\ taxIn.income > 50000000
  /\ taxOut.value.surcharge > 0
  /\ taxOut.value.surcharge = RoundDiv(taxOut.value.tax_after_rebate20, 80)

HraCalculated ==
  pc = "done" /\ taxOut # Idle /\ taxOut.fn = "calculateHraExemption"

\* A = hra_received.
HraA == taxIn.hra_received

\* Ten times B = rent_paid - 0.10 x basic.
HraB10 == 10 * taxIn.rent - taxIn.basic

\* A hundred times C = (0.50 if metro else 0.40) x basic.
HraC100 == (IF taxIn.is_metro THEN 50 ELSE 40) * taxIn.basic

\* C15: for all basic, hra_received, annual rent and metro flag, the HRA
\* exemption is never negative and never exceeds any of A, B and C.
C15_HraWithinABC ==
  HraCalculated =>
    /\ taxOut.value >= 0
    /\ taxOut.value <= HraA
    /\ 10 * taxOut.value <= HraB10
    /\ 100 * taxOut.value <= HraC100

\* C15 as amended: the HRA exemption is never negative; it exceeds none of
\* A, B and C when none of them is negative, and is 0 when one of them is.
C15_HraWithinABCOrZero ==
  HraCalculated =>
    /\ taxOut.value >= 0
    /\ (HraA >= 0 /\ HraB10 >= 0 /\ HraC100 >= 0) =>
         /\ taxOut.value <= HraA
         /\ 10 * taxOut.value <= HraB10
         /\ 100 * taxOut.value <= HraC100
    /\ (HraA < 0 \/ HraB10 < 0 \/ HraC100 < 0) => taxOut.value = 0

\* A call where the rent is below a tenth of basic, so that B is negative
\* and the exemption is floored at 0.
C15_Witness ==
  /\ HraCalculated
  /\ taxIn.rent > 0
  /\ HraB10 < 0
  /\ taxOut.value = 0

\* The regime of the finished calculator call.
RegimeOfCall == IF taxOut.fn = "calculateNewRegimeTax" THEN "new" ELSE "old"

\* The call was made one rupee above the 87A ceiling of its year and regime.
JustAboveRebateCeiling ==
  /\ TaxCalculated
  /\ taxIn.fy \in DOMAIN REBATE_87A
  /\ taxIn.income = REBATE_87A[taxIn.fy][RegimeOfCall].income_limit + 1

\* C16: rebate cliff: for each financial year and regime with an 87A entry,
\* the tax after rebate at ceiling + 1 exceeds the tax after rebate at the
\* ceiling by at least the full rebate granted at the ceiling.
C16_RebateCliff ==
  JustAboveRebateCeiling =>
    taxOut.value.tax_after_rebate20
        - SameCallAt(taxIn.income - 1).tax_after_rebate20
      >= 20 * SameCallAt(taxIn.income - 1).rebate_87a

\* A call one rupee above a ceiling at which a rebate is granted, with no
\* rebate left.
C16_Witness ==
  /\ JustAboveRebateCeiling
  /\ SameCallAt(taxIn.income - 1).rebate_87a > 0
  /\ taxOut.value.rebate_87a = 0

\* The reference date the capital-gains check of the report worked with.
ReportAsOf == IF opts.cgAsOf = NullDate THEN DefaultAsOf(today) ELSE opts.cgAsOf

\* An ELSS holding bought less than 36 months before the reference date.
InLockIn(h) == h.security_type = "elss" /\ holdingMonths(h, ReportAsOf) < 36

\* C17: an ELSS holding inside its 3-year lock-in at as_of is not listed in
\* capital_gains.details.holdings_to_harvest, and its gain is counted
\* neither in the harvestable LTCG nor in the savings.
C17_ElssLockInNotHarvested ==
  (Reported /\ holdings # NullHoldings) =>
    LET cg == ById(result, "capital_gains")
        free == [holdings EXCEPT !.holdings = SelectSeq(@, LAMBDA h : ~InLockIn(h))]
        cgFree == checkCapitalGains(free, opts.cgAsOf, today)
    IN  /\ cg.status = "opportunity" =>
             \A i \in 1..Len(holdings.holdings) :
               InLockIn(holdings.holdings[i]) =>
                 \A j \in 1..Len(cg.details.holdings_to_harvest) :
                   cg.details.holdings_to_harvest[j]
                     # holdings.holdings[i].security_name
        /\ cg.savings = cgFree.savings

\* Home loan interest amounts a profile is compared at.
Interest24b == {0, 50000, 100000, 150000, 200000, 250000, 300000}

\* The comparator's saving for a profile: new-regime tax minus optimised
\* old-regime tax, as checkRegime puts them in the finding's details.
RegimeDelta(profile) ==
  LET details == checkRegime(profile, CheckOpts(opts)).details
  IN  details.new_regime_tax - details.old_regime_tax

\* C18: with every other profile field fixed, the comparator's saving is
\* non-decreasing in deduction_24b and constant from 2 00 000 on, and a
\* profile with deduction_24b = 0 gets no 24b deduction in the optimised
\* old-regime scenario.
C18_HomeLoanMonotone ==
  Reported =>
    LET details == ById(result, "regime_arbitrage").details
        saving == details.new_regime_tax - details.old_regime_tax
    IN  /\ \A more \in Interest24b :
             more >= salary.deduction_24b =>
               RegimeDelta([salary EXCEPT !.deduction_24b = more]) >= saving
        /\ salary.deduction_24b >= LIMIT_24B_SELF_OCCUPIED =>
             \A more \in Interest24b :
               more >= LIMIT_24B_SELF_OCCUPIED =>
                 RegimeDelta([salary EXCEPT !.deduction_24b = more]) = saving
        /\ salary.deduction_24b = 0 =>
             details.old_regime_breakdown.deduction_24b = 0

\* A report for a profile whose home loan interest is below the limit and
\* makes the comparator's saving larger than it is without the loan.
C18_Witness ==
  /\ Reported
  /\ salary.deduction_24b > 0
  /\ salary.deduction_24b < LIMIT_24B_SELF_OCCUPIED
  /\ ById(result, "regime_arbitrage").details.old_regime_breakdown.deduction_24b
       = salary.deduction_24b
  /\ RegimeDelta(salary) > RegimeDelta([salary EXCEPT !.deduction_24b = 0])

LongTermClassified == HoldingMeasured /\ dateOut.fn = "isLongTerm"

\* Calendar months from the year 0 to the month of a date.
MonthIndex(date) == date.y * 12 + date.m

\* Whole calendar months from the holding's purchase_date to as_of, both as
\* the runtime reads them.
MonthDifference ==
  MonthIndex(DateValue(dateIn.asOf, dateIn.tz))
    - MonthIndex(createHolding(dateIn.data, dateIn.tz).purchase_date)

InsertionOrder ==
  <<"regime_arbitrage", "80c_gap", "80d_check", "hra_optimizer",
    "capital_gains", "nps_check", "home_loan_check">>

InsertionRank(id) == CHOOSE i \in 1..Len(InsertionOrder) : InsertionOrder[i] = id

\* C20: the report's checks are in non-increasing order of savings, and
\* findings with equal savings keep the insertion order regime_arbitrage,
\* 80c_gap, 80d_check, hra_optimizer, capital_gains, nps_check,
\* home_loan_check.
C20_SortedStable ==
  Reported =>
    \A i, j \in 1..Len(result.checks) :
      i < j =>
        /\ result.checks[i].savings >= result.checks[j].savings
        /\ result.checks[i].savings = result.checks[j].savings =>
             InsertionRank(result.checks[i].check_id)
               < InsertionRank(result.checks[j].check_id)

\* A report the sort has reordered (a later finding leads it) in which two
\* findings tie on a positive saving.
C20_Witness ==
  /\ Reported
  /\ Len(result.checks) = Len(InsertionOrder)
  /\ result.checks[1].check_id # InsertionOrder[1]
  /\ \E i, j \in 1..Len(result.checks) :
       /\ i < j
       /\ result.checks[i].savings = result.checks[j].savings
       /\ result.checks[i].savings > 0

\* ------------------------------------------------------------------------
\* Deadlines: parseDeadline (calendarGenerator.js) and the finding card's
\* getUrgencyColor.  A string is the sequence of its characters.
\* ------------------------------------------------------------------------

Str_NA == <<"N", "/", "A">>

UpperCase == <<"A", "B", "C", "D", "E", "F", "G", "H", "I", "J", "K", "L", "M",
               "N", "O", "P", "Q", "R", "S", "T", "U", "V", "W", "X", "Y", "Z">>

LowerCase == <<"a", "b", "c", "d", "e", "f", "g", "h", "i", "j", "k", "l", "m",
               "n", "o", "p", "q", "r", "s", "t", "u", "v", "w", "x", "y", "z">>

\* The character a case-insensitive regular expression compares.
ToLower(ch) ==
  IF \E i \in 1..Len(UpperCase) : UpperCase[i] = ch
    THEN LowerCase[CHOOSE i \in 1..Len(UpperCase) : UpperCase[i] = ch]
    ELSE ch

\* \s
IsWhitespace(ch) == ch \in {" ", "\t"}

\* /<word>\s*31/i.test(text)
TestWordThen31(word, text) ==
  \E start \in 1..Len(text) :
    \E spaces \in 0..Len(text) :
      /\ start + Len(word) + spaces + 1 <= Len(text)
      /\ \A i \in 1..Len(word) : ToLower(text[start + i - 1]) = word[i]
      /\ \A i \in 1..spaces : IsWhitespace(text[start + Len(word) + i - 1])
      /\ text[start + Len(word) + spaces] = "3"
      /\ text[start + Len(word) + spaces + 1] = "1"

\* /march\s*31/i.test(deadline)
TestMarch31(deadline) == TestWordThen31(<<"m", "a", "r", "c", "h">>, deadline)

\* /july\s*31/i.test(deadline)
TestJuly31(deadline) == TestWordThen31(<<"j", "u", "l", "y">>, deadline)

parseDeadline(deadline, now) ==
  IF deadline = <<>> \/ deadline = Str_NA THEN NullDate
  ELSE IF TestMarch31(deadline)
    THEN (IF now.m < 3 THEN [y |-> now.y, m |-> 2, d |-> 31]
                       ELSE [y |-> now.y + 1, m |-> 2, d |-> 31])
  ELSE IF TestJuly31(deadline)
    THEN (IF now.m < 7 THEN [y |-> now.y, m |-> 6, d |-> 31]
                       ELSE [y |-> now.y + 1, m |-> 6, d |-> 31])
  ELSE NullDate

\* getUrgencyColor's local variable target.
UrgencyTarget(deadline, now) ==
  IF deadline = <<>> \/ deadline = Str_NA THEN NullDate
  ELSE IF TestMarch31(deadline)
    THEN (IF now.m < 3 THEN [y |-> now.y, m |-> 2, d |-> 31]
                       ELSE [y |-> now.y + 1, m |-> 2, d |-> 31])
  ELSE IF TestJuly31(deadline)
    THEN (IF now.m < 6 THEN [y |-> now.y, m |-> 6, d |-> 31]
                       ELSE [y |-> now.y + 1, m |-> 6, d |-> 31])
  ELSE NullDate

\* Days of the year y.
DaysInYear(y) == 337 + DaysInMonth(y, 1)

\* Days from 1 January 2000 to a date.
RECURSIVE DayNumber(_)
DayNumber(date) ==
  IF date.y > 2000 THEN DaysInYear(date.y - 1) + DayNumber([date EXCEPT !.y = @ - 1])
  ELSE IF date.m > 0
    THEN DaysInMonth(date.y, date.m - 1) + DayNumber([date EXCEPT !.m = @ - 1])
  ELSE date.d - 1

\* Math.ceil((target - now) / 86_400_000), now being a moment of its day.
DaysUntil(target, now) == DayNumber(target) - DayNumber(now)

getUrgencyColor(deadline, now) ==
  LET target == UrgencyTarget(deadline, now)
  IN  IF target = NullDate THEN "null"
      ELSE IF DaysUntil(target, now) < 30 THEN "red"
      ELSE IF DaysUntil(target, now) < 90 THEN "amber"
      ELSE "green"

\* ------------------------------------------------------------------------
\* Specification of the deadlines: one call of parseDeadline, or one render
\* of a finding card's deadline, on a deadline text and a reference date.
\* ------------------------------------------------------------------------

DeadlineTexts ==
    \* ''
  { <<>>,
    \* 'N/A'
    <<"N", "/", "A">>,
    \* 'March 31 (end of financial year)'
    <<"M", "a", "r", "c", "h", " ", "3", "1", " ", "(", "e", "n", "d", " ", "o", "f", " ", "f", "i", "n", "a", "n", "c", "i", "a", "l", " ", "y", "e", "a", "r", ")">>,
    \* 'Include in ITR filing by July 31'
    <<"I", "n", "c", "l", "u", "d", "e", " ", "i", "n", " ", "I", "T", "R", " ", "f", "i", "l", "i", "n", "g", " ", "b", "y", " ", "J", "u", "l", "y", " ", "3", "1">>,
    \* the regime finding's deadline (its dash written as a hyphen)
    <<"J", "u", "l", "y", " ", "3", "1", " ", "(", "I", "T", "R", " ", "f", "i", "l", "i", "n", "g", ")", " ", "-", " ", "b", "u", "t", " ", "i", "n", "v", "e", "s", "t", "m", "e", "n", "t", "s", " ", "n", "e", "e", "d", "e", "d", " ", "b", "e", "f", "o", "r", "e", " ", "M", "a", "r", "c", "h", " ", "3", "1">>,
    \* 'MARCH 31'
    <<"M", "A", "R", "C", "H", " ", "3", "1">>,
    \* 'march31'
    <<"m", "a", "r", "c", "h", "3", "1">>,
    \* 'March  31'
    <<"M", "a", "r", "c", "h", " ", " ", "3", "1">>,
    \* 'JULY 31'
    <<"J", "U", "L", "Y", " ", "3", "1">>,
    \* 'july31'
    <<"j", "u", "l", "y", "3", "1">>,
    \* 'July 31'
    <<"J", "u", "l", "y", " ", "3", "1">>,
    \* 'December 31'
    <<"D", "e", "c", "e", "m", "b", "e", "r", " ", "3", "1">>,
    \* 'March 30'
    <<"M", "a", "r", "c", "h", " ", "3", "0">>,
    \* 'some random text'
    <<"s", "o", "m", "e", " ", "r", "a", "n", "d", "o", "m", " ", "t", "e", "x", "t">> }

\* The first, the fifteenth and the last day of every month of two years.
ReferenceDays ==
  { [y |-> y, m |-> m, d |-> d] :
      y \in {2025, 2026}, m \in 0..11, d \in {1, 15, 28} }
    \cup { [y |-> y, m |-> m, d |-> DaysInMonth(y, m)] :
             y \in {2025, 2026}, m \in 0..11 }

DeadlineInputs ==
  { [deadline |-> text, now |-> day] : text \in DeadlineTexts, day \in ReferenceDays }

InitDeadline ==
  /\ pc = "ready"
  /\ wizard = Idle /\ app = Idle
  /\ dateIn \in DeadlineInputs
  /\ dateOut = Idle
  /\ salary = Idle /\ holdings = Idle /\ opts = Idle /\ today = Idle
  /\ result = Idle /\ taxIn = Idle /\ taxOut = Idle
  /\ redIn = Idle /\ redOut = Idle

ParseDeadline ==
  /\ pc = "ready"
  /\ dateOut' = [fn |-> "parseDeadline",
                 value |-> parseDeadline(dateIn.deadline, dateIn.now)]
  /\ pc' = "done"
  /\ UNCHANGED <<salary, holdings, opts, today, result, taxIn, taxOut, redIn,
                 redOut, dateIn, wizard, app>>

GetUrgencyColor ==
  /\ pc = "ready"
  /\ dateOut' = [fn |-> "getUrgencyColor",
                 target |-> UrgencyTarget(dateIn.deadline, dateIn.now),
                 value |-> getUrgencyColor(dateIn.deadline, dateIn.now)]
  /\ pc' = "done"
  /\ UNCHANGED <<salary, holdings, opts, today, result, taxIn, taxOut, redIn,
                 redOut, dateIn, wizard, app>>

NextDeadline == ParseDeadline \/ GetUrgencyColor

SpecDeadline == InitDeadline /\ [][NextDeadline]_vars

DeadlineParsed == pc = "done" /\ dateOut # Idle /\ dateOut.fn = "parseDeadline"

\* The nearest day d of month m that is not before the calendar day of now.
NextOccurrence(m, d, now) ==
  IF now.m < m \/ (now.m = m /\ now.d <= d)
    THEN [y |-> now.y, m |-> m, d |-> d]
    ELSE [y |-> now.y + 1, m |-> m, d |-> d]

\* C21: for every reference date, a deadline string matching 'March 31'
\* (respectively 'July 31'), case-insensitively and with optional whitespace
\* between word and day, parses to the next occurrence of that date, the
\* nearest one not before the reference date's calendar day; 'N/A', empty
\* and unrecognised strings parse to null.
C21_ParsesToNextOccurrence ==
  DeadlineParsed =>
    /\ TestMarch31(dateIn.deadline) =>
         dateOut.value = NextOccurrence(2, 31, dateIn.now)
    /\ TestJuly31(dateIn.deadline) =>
         dateOut.value = NextOccurrence(6, 31, dateIn.now)
    /\ ~TestMarch31(dateIn.deadline) /\ ~TestJuly31(dateIn.deadline) =>
         dateOut.value = NullDate

DeadlineMeasured == pc = "done" /\ dateOut # Idle /\ "deadline" \in DOMAIN dateIn

\* C28: for every reference date and every deadline string, the target date
\* the finding card uses to colour the deadline's urgency is the same
\* calendar day that parseDeadline returns for that string and date, or both
\* are absent.
C28_CardTargetIsParsedDeadline ==
  DeadlineMeasured =>
    UrgencyTarget(dateIn.deadline, dateIn.now)
      = parseDeadline(dateIn.deadline, dateIn.now)

\* ------------------------------------------------------------------------
\* Finding card (FindingCard.jsx)
\* ------------------------------------------------------------------------

\* The check ids the card treats as components of the regime switch.
DEDUCTION_CHECK_IDS == {"80c_gap", "80d_check", "hra_optimizer", "nps_check", "home_loan"}

\* FindingCard's isComponent: the card is labelled 'part of switch'.
isComponent(check, recommendedRegime) ==
  check.check_id \in DEDUCTION_CHECK_IDS /\ recommendedRegime = "old"

\* C30: the check ids the finding card treats as deduction components are
\* the deduction-based checks the orchestrator suppresses under the new
\* regime, 80c_gap, 80d_check, hra_optimizer, nps_check and home_loan_check:
\* every finding of a report is a component for the card exactly when it is
\* one for the orchestrator.
C30_CardComponentsAreDeductionChecks ==
  Reported =>
    /\ DEDUCTION_CHECK_IDS = deductionChecks
    /\ \A check \in Findings :
         isComponent(check, "old") <=> check.check_id \in deductionChecks

\* The old-regime breakdown of the stored profile as declared, no overrides.
DeclaredOldBreakdown == computeOldRegimeTaxableIncome(salary, NoOverrides)

\* The old-regime tax of the stored profile as declared, for the age
\* category the comparator uses.
DeclaredOldTax ==
  calculateOldRegimeTax(DeclaredOldBreakdown.taxable_income, salary.financial_year,
                        IF CheckOpts(opts).selfSenior THEN "senior" ELSE "below_60").total_tax

\* C22: the comparator's fully optimised old-regime scenario is never worse
\* than the profile as declared: the optimised old-regime taxable income is
\* at most the old-regime taxable income of the profile with no overrides,
\* and the optimised old tax at most the as-declared old tax.
C22_OptimisedNotWorse ==
  Reported =>
    LET details == ById(result, "regime_arbitrage").details
    IN  /\ details.old_regime_taxable <= DeclaredOldBreakdown.taxable_income
        /\ details.old_regime_tax <= DeclaredOldTax

\* The exemptionRemaining prop the card gives the redemption planner:
\* check.details?.exemption_remaining ?? 125_000.
PlannerExemptionRemaining(check) ==
  IF "exemption_remaining" \in DOMAIN check.details
    THEN check.details.exemption_remaining
    ELSE 125000

\* The holdings object the capital-gains check was run on.
CheckedHoldings == IF holdings = NullHoldings THEN EmptyHoldings ELSE holdings

HarvestAdvised ==
  /\ Reported
  /\ "holdings_to_harvest" \in DOMAIN ById(result, "capital_gains").details

\* The stored holding of a given name.
HoldingNamed(name) ==
  CheckedHoldings.holdings[
    CHOOSE i \in 1..Len(CheckedHoldings.holdings) :
      CheckedHoldings.holdings[i].security_name = name]

\* The unrealized gain of the stored holding of a given name.
GainOfNamed(name) == unrealized_gain(HoldingNamed(name))

RECURSIVE SumGainOfNamed(_)
SumGainOfNamed(names) ==
  IF names = <<>> THEN 0 ELSE GainOfNamed(Head(names)) + SumGainOfNamed(Tail(names))

\* C24: following the harvesting advice stays inside the exemption: the total
\* unrealized gain of the holdings listed in holdings_to_harvest never
\* exceeds the exemption remaining before the harvest, it equals
\* exemption_used, and the list is empty whenever exemption_used is 0.
C24_HarvestWithinExemption ==
  HarvestAdvised =>
    LET details == ById(result, "capital_gains").details
        total == SumGainOfNamed(details.holdings_to_harvest)
    IN  /\ total <= ExemptionRemaining(CheckedHoldings)
        /\ total = details.exemption_used
        /\ details.exemption_used = 0 => details.holdings_to_harvest = <<>>

\* A date k calendar months after a date, on the first of the month.
MonthsLater(date, k) ==
  [y |-> date.y + (date.m + k) \div 12, m |-> (date.m + k) % 12, d |-> 1]

\* C25: every holding-period alert is actionable as stated: the alerted
\* holding is long-term at as_of shifted forward by the alert's
\* months_to_ltcg months, whatever the holding's security type.
C25_AlertedHoldingBecomesLongTerm ==
  HarvestAdvised =>
    LET alerts == ById(result, "capital_gains").details.holding_period_alerts
    IN  \A i \in 1..Len(alerts) :
          isLongTerm(HoldingNamed(alerts[i].security),
                     MonthsLater(ReportAsOf, alerts[i].months_to_ltcg))

\* Taxable incomes not above the income of the finished call: the lower
\* incomes of the inputs, and the incomes one to three rupees below it.
LowerIncomes ==
  {x \in Incomes : x <= taxIn.income}
    \cup {taxIn.income - dl : dl \in {dl \in 1..MaxDelta : dl <= taxIn.income}}

\* C27: total tax never decreases with income: for each regime, financial
\* year and age category, total_tax, and tax after rebate plus surcharge, at
\* taxable income y is at least its value at every taxable income x <= y.
C27_TaxMonotone ==
  TaxCalculated =>
    \A x \in LowerIncomes :
      /\ SameCallAt(x).total_tax <= taxOut.value.total_tax
      /\ PreCess20(SameCallAt(x)) <= PreCess20(taxOut.value)

\* A calculation that bears a surcharge, above a surcharge threshold, whose
\* total tax is larger than the tax at the income one rupee below it.
C27_Witness ==
  /\ TaxCalculated
  /\ taxIn.income - 1 \in Incomes
  /\ SameCallAt(taxIn.income - 1).total_tax > 0
  /\ taxOut.value.total_tax > SameCallAt(taxIn.income - 1).total_tax
  /\ taxOut.value.surcharge > 0

\* ------------------------------------------------------------------------
\* Question wizard (QuestionFlow.jsx, CTCQuestion.jsx)
\* ------------------------------------------------------------------------

\* The ids of the eight steps, in order; STEPS[i].id is StepIds[i + 1].
StepIds ==
  <<"ctc", "rent", "city", "homeLoan", "healthInsurance", "parentsAge",
    "existing80c", "nps">>

\* STEPS.length
StepCount == Len(StepIds)

\* What a question can answer: two of the CTC presets, or one of two options.
StepOptions(step) == IF step = 0 THEN {800000, 1200000} ELSE {0, 1}

\* { ...answers, ...updates }
Merge(answers, updates) ==
  [k \in DOMAIN answers \cup DOMAIN updates |->
     IF k \in DOMAIN updates THEN updates[k] ELSE answers[k]]

\* The updates a question hands to onNext: its contribution, keyed by its id.
Updates(step, value) == [k \in {StepIds[step + 1]} |-> value]

\* The wizard after mounting: useState(0), useState({}), first render done.
\* shown is the committed render, whose values handleNext and handleBack
\* close over; stepIndex and answers are the state with all queued updates.
MountedWizard ==
  [stepIndex |-> 0, answers |-> EmptyObject,
   shown |-> [stepIndex |-> 0, answers |-> EmptyObject],
   timer |-> [armed |-> FALSE],
   dirty |-> FALSE, seen |-> {0}, mounted |-> TRUE, crashed |-> FALSE,
   completions |-> <<>>, exits |-> 0]

\* handleNext of a render (its answers and stepIndex) called with updates:
\* setAnswers(newAnswers), then onComplete(newAnswers) at the last step or
\* setStepIndex(prev => prev + 1).  App's handleComplete leaves the wizard.
handleNext(w, closure, updates) ==
  LET newAnswers == Merge(closure.answers, updates)
  IN  IF closure.stepIndex >= StepCount - 1
        THEN [w EXCEPT !.answers = newAnswers,
                       !.completions = Append(@, newAnswers),
                       !.mounted = FALSE]
        ELSE [w EXCEPT !.answers = newAnswers, !.stepIndex = @ + 1]

\* handleBack of a render: onExit() at the first step (App's handleExit
\* leaves the wizard), else setStepIndex(prev => prev - 1).
handleBack(w, closure) ==
  IF closure.stepIndex = 0
    THEN [w EXCEPT !.exits = @ + 1, !.mounted = FALSE]
    ELSE [w EXCEPT !.stepIndex = @ - 1]

\* A render that commits the queued state.  STEPS[stepIndex] is undefined
\* outside 0..7 and destructuring it throws.  The question is keyed by
\* stepIndex: when the step changes, CTCQuestion unmounts and its cleanup
\* clears the timer.
Commit(w) ==
  IF ~w.mounted THEN [w EXCEPT !.timer = [armed |-> FALSE], !.dirty = FALSE]
  ELSE IF w.stepIndex \notin 0..(StepCount - 1)
    THEN [w EXCEPT !.crashed = TRUE, !.mounted = FALSE, !.dirty = FALSE,
                   !.timer = [armed |-> FALSE]]
  ELSE [w EXCEPT !.shown = [stepIndex |-> w.stepIndex, answers |-> w.answers],
                 !.seen = @ \cup {w.stepIndex},
                 !.timer = IF w.stepIndex # w.shown.stepIndex
                             THEN [armed |-> FALSE] ELSE @,
                 !.dirty = FALSE]

\* ------------------------------------------------------------------------
\* Specification of the wizard: clicks, whose state updates React renders
\* before the next event, and the preset timer of the CTC question, whose
\* updates are rendered by a later task.
\* ------------------------------------------------------------------------

InitWizard ==
  /\ pc = "ready"
  /\ wizard = MountedWizard
  /\ app = Idle
  /\ salary = Idle /\ holdings = Idle /\ opts = Idle /\ today = Idle
  /\ result = Idle /\ taxIn = Idle /\ taxOut = Idle
  /\ redIn = Idle /\ redOut = Idle
  /\ dateIn = Idle /\ dateOut = Idle

\* CTCQuestion.handlePreset: (re)arms the 500 ms timer with the onNext of
\* the committed render.
ClickPreset ==
  /\ wizard.mounted /\ wizard.shown.stepIndex = 0
  /\ \E value \in StepOptions(0) :
       wizard' = [wizard EXCEPT !.timer = [armed |-> TRUE, closure |-> wizard.shown,
                                           value |-> value]]
  /\ UNCHANGED <<pc, salary, holdings, opts, today, result, taxIn, taxOut, redIn,
                 redOut, dateIn, dateOut, app>>

\* The timer's callback: onNext({ ctc: preset.value }), outside any event, so
\* its updates wait for a render.  The render follows within the 500 ms of
\* a timer, so no timer fires while updates wait.
TimerFires ==
  /\ wizard.mounted /\ wizard.timer.armed /\ ~wizard.dirty
  /\ wizard' = [handleNext(wizard, wizard.timer.closure,
                           Updates(0, wizard.timer.value))
                  EXCEPT !.timer = [armed |-> FALSE], !.dirty = TRUE]
  /\ UNCHANGED <<pc, salary, holdings, opts, today, result, taxIn, taxOut, redIn,
                 redOut, dateIn, dateOut, app>>

\* A click that answers the shown question (CTCQuestion.handleContinue clears
\* the timer first): onNext of the committed render, then the render.
ClickAnswer ==
  /\ wizard.mounted
  /\ \E value \in StepOptions(wizard.shown.stepIndex) :
       wizard' = Commit(handleNext([wizard EXCEPT !.timer = [armed |-> FALSE]],
                                   wizard.shown,
                                   Updates(wizard.shown.stepIndex, value)))
  /\ UNCHANGED <<pc, salary, holdings, opts, today, result, taxIn, taxOut, redIn,
                 redOut, dateIn, dateOut, app>>

\* A click on back: handleBack of the committed render, then the render.
ClickBack ==
  /\ wizard.mounted
  /\ wizard' = Commit(handleBack(wizard, wizard.shown))
  /\ UNCHANGED <<pc, salary, holdings, opts, today, result, taxIn, taxOut, redIn,
                 redOut, dateIn, dateOut, app>>

\* The render of updates queued outside an event.
Render ==
  /\ wizard.mounted /\ wizard.dirty
  /\ wizard' = Commit(wizard)
  /\ UNCHANGED <<pc, salary, holdings, opts, today, result, taxIn, taxOut, redIn,
                 redOut, dateIn, dateOut, app>>

NextWizard == ClickPreset \/ TimerFires \/ ClickAnswer \/ ClickBack \/ Render

SpecWizard == InitWizard /\ [][NextWizard]_vars

WizardRunning == wizard # Idle

\* C26: in the question wizard, under any interleaving of onNext and back
\* events with re-renders, also with two events handled before the next
\* render, stepIndex stays within 0..7, no step is skipped (every step
\* before the shown one has been shown), and onComplete is called at most
\* once and only with answers that hold the contribution of every one of
\* the eight steps.
C26_WizardInOrder ==
  WizardRunning =>
    /\ wizard.stepIndex \in 0..(StepCount - 1)
    /\ \A step \in 0..(StepCount - 1) :
         step < wizard.shown.stepIndex => step \in wizard.seen
    /\ Len(wizard.completions) <= 1
    /\ \A i \in 1..Len(wizard.completions) :
         \A s \in 1..StepCount : StepIds[s] \in DOMAIN wizard.completions[i]

\* ------------------------------------------------------------------------
\* Estimators and the App screen router (ctcEstimator.js, ltcgEstimator.js,
\* models.js, App.jsx)
\* ------------------------------------------------------------------------

\* useState(null)
Null == [null |-> TRUE]

\* object?.key || dflt where dflt is the falsy value of the field's type
\* (0, false): the value when the key is present, dflt when it is not.
Get(object, key, dflt) ==
  IF object = Null \/ key \notin DOMAIN object THEN dflt ELSE object[key]

\* object?.key || dflt for a text field: the empty string gives dflt too.
GetText(object, key, dflt) ==
  IF object = Null \/ key \notin DOMAIN object \/ object[key] = "" THEN dflt
  ELSE object[key]

\* createSalaryProfile: every field of a profile, from the data or its
\* default.
createSalaryProfile(data) ==
  [k \in DOMAIN Priya |->
     CASE k = "financial_year" -> GetText(data, k, "2024-25")
       [] k = "employee_name" -> GetText(data, k, "")
       [] k = "regime" -> GetText(data, k, "new")
       [] k = "city" -> GetText(data, k, "other")
       [] OTHER -> Get(data, k, 0)]

\* estimateFromCTC: 40% basic, HRA half of basic, EPF 12% and gratuity 4.81%
\* of basic, each rounded to the rupee.
estimateFromCTC(answers) ==
  LET ctc == answers.ctc
      basic == RoundDiv(ctc * 40, 100)
      hra == RoundDiv(basic * 50, 100)
      employerEpf == RoundDiv(basic * 12, 100)
      gratuity == RoundDiv(basic * 481, 10000)
      grossSalary == ctc - employerEpf - gratuity
      epfEmployee == RoundDiv(basic * 12, 100)
  IN  createSalaryProfile(
        [financial_year |-> "2024-25",
         employee_name |-> GetText(answers, "name", ""),
         gross_salary |-> grossSalary,
         basic_salary |-> basic,
         hra_received |-> hra,
         hra_exemption |-> 0, lta_exemption |-> 0, other_exemptions |-> 0,
         professional_tax |-> 2400,
         deduction_80c |-> Min(epfEmployee + Get(answers, "extra80C", 0), LIMIT_80C),
         deduction_80d |-> Get(answers, "healthPremiumSelf", 0)
                             + Get(answers, "healthPremiumParents", 0),
         deduction_80ccd_1b |-> Get(answers, "npsContribution", 0),
         deduction_24b |-> Get(answers, "homeLoanInterest", 0),
         regime |-> "new",
         city |-> toLowerCase(GetText(answers, "city", "other")),
         monthly_rent |-> Get(answers, "monthlyRent", 0),
         epf_employee_contribution |-> epfEmployee])

\* Range selection to representative LTCG amount. The 'skip' key, whose
\* amount is null, is left out: a key outside the domain has no amount.
RANGE_MAP ==
  "under_50k" :> 35000 @@ "50k_to_125k" :> 87500 @@ "over_125k" :> 175000

\* estimateLTCG: one synthetic long-term equity holding, or null.
estimateLTCG(answers, tzOffset) ==
  IF ~answers.hasInvestments THEN NullHoldings
  ELSE IF answers.ltcgRange \notin DOMAIN RANGE_MAP THEN NullHoldings
  ELSE [holdings |->
          << createHolding(
               [security_name |-> "Your stock/MF portfolio (estimated)",
                security_type |-> "equity_mf",
                purchase_date |-> [iso |-> [y |-> 2023, m |-> 0, d |-> 1]],
                purchase_price |-> 0, quantity |-> 1,
                current_price |-> RANGE_MAP[answers.ltcgRange]], tzOffset) >>,
        realized_stcg_this_fy |-> 0, realized_ltcg_this_fy |-> 0]

\* new Date('2025-03-31') as the runtime reads it.
DemoAsOf(tzOffset) == ParseIsoDate([y |-> 2025, m |-> 2, d |-> 31], tzOffset)

\* The options of the orchestrator calls that no cgAsOf is given to.
AnswerOptions(answers) ==
  [parentsSenior |-> Get(answers, "parentsOver60", FALSE), selfSenior |-> FALSE,
   cgAsOf |-> NullDate]

\* The App before the first event.
LandingApp(tzOffset) ==
  [screen |-> "landing", result |-> Null, profile |-> Null, answers |-> Null,
   holdings |-> NullHoldings, isDemo |-> FALSE, tz |-> tzOffset]

handleStart(a) == [a EXCEPT !.screen = "questions"]

handleComplete(a, ans, now) ==
  LET prof == estimateFromCTC(ans)
  IN  [a EXCEPT !.answers = ans, !.profile = prof, !.holdings = NullHoldings,
                !.result = runAllChecks(prof, NullHoldings, AnswerOptions(ans), now),
                !.isDemo = FALSE, !.screen = "results"]

handleDemo(a, now) ==
  LET prof == createSalaryProfile(Priya)
      hold == PriyaHoldings
  IN  [a EXCEPT !.profile = prof, !.holdings = hold,
                !.result = runAllChecks(prof, hold,
                             [parentsSenior |-> FALSE, selfSenior |-> FALSE,
                              cgAsOf |-> DemoAsOf(a.tz)], now),
                !.answers = Null, !.isDemo = TRUE, !.screen = "results"]

handleExit(a) == [a EXCEPT !.screen = "landing"]

handleStartOver(a) ==
  [a EXCEPT !.result = Null, !.profile = Null, !.answers = Null,
            !.holdings = NullHoldings, !.isDemo = FALSE, !.screen = "landing"]

\* The profile handleAdjust builds from the corrected salary structure and
\* the stored answers.
AdjustedProfile(a, corrected) ==
  createSalaryProfile(
    [financial_year |-> "2024-25", employee_name |-> "",
     gross_salary |-> corrected.gross, basic_salary |-> corrected.basic,
     hra_received |-> corrected.hra, professional_tax |-> 2400,
     deduction_80c |-> Min(corrected.epf + Get(a.answers, "extra80C", 0), 150000),
     deduction_80d |-> Get(a.answers, "healthPremiumSelf", 0)
                         + Get(a.answers, "healthPremiumParents", 0),
     deduction_80ccd_1b |-> Get(a.answers, "npsContribution", 0),
     deduction_24b |-> Get(a.answers, "homeLoanInterest", 0),
     regime |-> "new",
     city |-> toLowerCase(GetText(a.answers, "city", "other")),
     monthly_rent |-> Get(a.answers, "monthlyRent", 0),
     epf_employee_contribution |-> corrected.epf])

\* An adjustment that runs the checks without the stored holdings.
handleAdjust_WithoutHoldings(a, corrected, now) ==
  [a EXCEPT !.profile = AdjustedProfile(a, corrected),
            !.result = runAllChecks(AdjustedProfile(a, corrected), NullHoldings,
                                    AnswerOptions(a.answers), now)]

handleAdjust(a, corrected, now) ==
  [a EXCEPT !.profile = AdjustedProfile(a, corrected),
            !.result = runAllChecks(AdjustedProfile(a, corrected), a.holdings,
                                    AnswerOptions(a.answers), now)]

handleInvestmentUnlock(a) == [a EXCEPT !.screen = "investment-questions"]

handleInvestmentComplete(a, investmentAnswers, now) ==
  LET hold == estimateLTCG(investmentAnswers, a.tz)
  IN  [a EXCEPT !.holdings = hold,
                !.result = runAllChecks(a.profile, hold, AnswerOptions(a.answers), now),
                !.screen = "results"]

handleInvestmentSkip(a) == [a EXCEPT !.screen = "results"]

\* ------------------------------------------------------------------------
\* Specification of the App: the events its screens offer, each handled and
\* rendered before the next.
\* ------------------------------------------------------------------------

\* Final answers of the wizard; the last lacks the rent question's answer.
WizardAnswers ==
  { [ctc |-> 1500000, monthlyRent |-> 25000, city |-> "mumbai",
     homeLoanInterest |-> 0, healthPremiumSelf |-> 0, healthPremiumParents |-> 0,
     parentsOver60 |-> FALSE, extra80C |-> 0, npsContribution |-> 0],
    [ctc |-> 800000, monthlyRent |-> 0, city |-> "pune",
     homeLoanInterest |-> 0, healthPremiumSelf |-> 15000,
     healthPremiumParents |-> 0, parentsOver60 |-> TRUE, extra80C |-> 50000,
     npsContribution |-> 0],
    [ctc |-> 2500000, monthlyRent |-> 40000, city |-> "delhi",
     homeLoanInterest |-> 150000, healthPremiumSelf |-> 25000,
     healthPremiumParents |-> 30000, parentsOver60 |-> TRUE, extra80C |-> 100000,
     npsContribution |-> 50000],
    [ctc |-> 1200000, city |-> "other",
     homeLoanInterest |-> 0, healthPremiumSelf |-> 0, healthPremiumParents |-> 0,
     parentsOver60 |-> FALSE, extra80C |-> 0, npsContribution |-> 0] }

\* Corrected salary structures of the adjust panel.
Corrections ==
  { [gross |-> 1400000, basic |-> 700000, hra |-> 280000, special |-> 420000,
     epf |-> 21600],
    [gross |-> 1000000, basic |-> 300000, hra |-> 0, special |-> 700000,
     epf |-> 36000] }

\* The answers InvestmentFlow completes with.
InvestmentAnswers ==
  { [hasInvestments |-> FALSE, ltcgRange |-> "skip"] }
    \cup { [hasInvestments |-> TRUE, ltcgRange |-> r] :
             r \in {"under_50k", "50k_to_125k", "over_125k", "skip"} }

InitApp ==
  /\ pc = "ready"
  /\ wizard = Idle
  /\ today \in Clocks
  /\ app \in { LandingApp(tzOffset) : tzOffset \in Timezones }
  /\ salary = Idle /\ holdings = Idle /\ opts = Idle
  /\ result = Idle /\ taxIn = Idle /\ taxOut = Idle
  /\ redIn = Idle /\ redOut = Idle
  /\ dateIn = Idle /\ dateOut = Idle

Start ==
  /\ app.screen = "landing"
  /\ app' = handleStart(app)
  /\ UNCHANGED <<pc, salary, holdings, opts, today, result, taxIn, taxOut, redIn,
                 redOut, dateIn, dateOut, wizard>>

Complete ==
  /\ app.screen = "questions"
  /\ \E ans \in WizardAnswers : app' = handleComplete(app, ans, today)
  /\ UNCHANGED <<pc, salary, holdings, opts, today, result, taxIn, taxOut, redIn,
                 redOut, dateIn, dateOut, wizard>>

Demo ==
  /\ app.screen = "landing"
  /\ app' = handleDemo(app, today)
  /\ UNCHANGED <<pc, salary, holdings, opts, today, result, taxIn, taxOut, redIn,
                 redOut, dateIn, dateOut, wizard>>

Exit ==
  /\ app.screen = "questions"
  /\ app' = handleExit(app)
  /\ UNCHANGED <<pc, salary, holdings, opts, today, result, taxIn, taxOut, redIn,
                 redOut, dateIn, dateOut, wizard>>

StartOver ==
  /\ app.screen = "results"
  /\ app' = handleStartOver(app)
  /\ UNCHANGED <<pc, salary, holdings, opts, today, result, taxIn, taxOut, redIn,
                 redOut, dateIn, dateOut, wizard>>

\* The adjust panel is offered when !isDemo && answers?.ctc.
Adjust ==
  /\ app.screen = "results"
  /\ ~app.isDemo /\ Get(app.answers, "ctc", 0) # 0
  /\ \E corrected \in Corrections : app' = handleAdjust(app, corrected, today)
  /\ UNCHANGED <<pc, salary, holdings, opts, today, result, taxIn, taxOut, redIn,
                 redOut, dateIn, dateOut, wizard>>

\* The investment unlock is offered when !holdings.
InvestmentUnlock ==
  /\ app.screen = "results"
  /\ app.holdings = NullHoldings
  /\ app' = handleInvestmentUnlock(app)
  /\ UNCHANGED <<pc, salary, holdings, opts, today, result, taxIn, taxOut, redIn,
                 redOut, dateIn, dateOut, wizard>>

InvestmentComplete ==
  /\ app.screen = "investment-questions"
  /\ \E investmentAnswers \in InvestmentAnswers :
       app' = handleInvestmentComplete(app, investmentAnswers, today)
  /\ UNCHANGED <<pc, salary, holdings, opts, today, result, taxIn, taxOut, redIn,
                 redOut, dateIn, dateOut, wizard>>

InvestmentSkip ==
  /\ app.screen = "investment-questions"
  /\ app' = handleInvestmentSkip(app)
  /\ UNCHANGED <<pc, salary, holdings, opts, today, result, taxIn, taxOut, redIn,
                 redOut, dateIn, dateOut, wizard>>

NextApp ==
  \/ Start \/ Complete \/ Demo \/ Exit \/ StartOver \/ Adjust
  \/ InvestmentUnlock \/ InvestmentComplete \/ InvestmentSkip

SpecApp == InitApp /\ [][NextApp]_vars

ResultsShown == app # Idle /\ app.screen = "results"

\* The options the App gives the orchestrator for its stored state.
StoredOptions ==
  IF app.isDemo
    THEN [parentsSenior |-> FALSE, selfSenior |-> FALSE, cgAsOf |-> DemoAsOf(app.tz)]
    ELSE AnswerOptions(app.answers)

\* C29: in every state the App can reach through any sequence of start,
\* complete, demo, exit, start-over, adjust, investment-unlock,
\* investment-complete and investment-skip events, whenever the results
\* screen is shown the stored result and profile are non-null and the result
\* is the orchestrator's output for the stored profile and holdings.
C29_ResultsMatchStoredInputs ==
  ResultsShown =>
    /\ app.result # Null
    /\ app.profile # Null
    /\ app.result = runAllChecks(app.profile, app.holdings, StoredOptions, today)

\* The results screen after an adjustment made once the investment
\* questions have given the App holdings.
C29_Witness ==
  /\ ResultsShown
  /\ app.holdings # NullHoldings
  /\ ~app.isDemo
  /\ app.profile # estimateFromCTC(app.answers)
  /\ ById(app.result, "capital_gains").status = "opportunity"

====
